---------------------------- MODULE Spec2Model ----------------------------
(***************************************************************************)
(* A model of the StyleGAN2 trainer (src/train.py), the inference sampler  *)
(* (src/generate.py) and the dataset preparation (src/prepare_data.py).    *)
(*                                                                         *)
(* The specifications that share the module:                               *)
(*   Spec     the iteration loop of train(): the order of the optimizer    *)
(*            steps, the regularization passes, the augmentation tuning,   *)
(*            the EMA update, the loop's bounds, and the logging, sample   *)
(*            and checkpoint block of rank 0 (FairSpec: with fairness);    *)
(*   SpecAcc  accumulate(model1, model2, decay) applied to two parameter   *)
(*            dictionaries drawn from bounded sets;                        *)
(*   SpecD    the discriminator phase of one iteration with the centroid   *)
(*            term: the per-sample scaling and d_logistic_loss;            *)
(*   SpecCkpt a checkpoint file written by train() and read back by the    *)
(*            main block of train.py;                                      *)
(*   SpecData sample_data(loader), the endless stream of real batches;     *)
(*   SpecMix  mixing_noise and make_noise;                                 *)
(*   SpecGen  generate.py: the mean latent and the outputs of generate();  *)
(*   SpecPrep prepare() of prepare_data.py with its worker pool;           *)
(*   SpecDist train() in the processes of a distributed run and their      *)
(*            collective calls;                                            *)
(*   SpecPair one iteration run twice with two settings of the centroid    *)
(*            term, to compare the parameters the runs end with.           *)
(*                                                                         *)
(* Real numbers are fixed point: One stands for 1.0.                       *)
(***************************************************************************)
EXTENDS Integers, Sequences, FiniteSets, TLC

VARIABLES
    \* ---- train(): the iteration loop
    pc,                \* position in train()
    args,              \* the parsed arguments train() reads
    idx,               \* next value the range(args.iter) iterator yields
    i,                 \* i = idx + args.start_iter of the running iteration
    steps,             \* the steps of the running iteration, in order
    ran,               \* the counters i of the iterations executed so far
    gen,               \* the generator's parameter (fixed point)
    disc,              \* the discriminator's parameter version
    g_ema,             \* the EMA generator's parameter (fixed point)
    ada_aug_p,         \* augmentation strength, in steps of 1/PLevels
    p_used,            \* strength each augment() call of the iteration got
    r1_loss,
    path_loss,
    mean_path_length,
    counts,            \* per iteration: optimizer steps, accumulate calls
    snap,              \* the losses and g_ema at the top of the iteration
    rank,              \* get_rank() of this process
    wandb,             \* the module global: "imported", or "missing" (None)
    effects,           \* what this process logged and wrote, with the i of each
    error,             \* the exception that ended the loop, "none" otherwise
    grad,              \* requires_grad of each network's parameters
    optim_steps,       \* the optimizer steps of the iteration, with grad at each
    \* ---- accumulate()
    par1,              \* dict(model1.named_parameters())
    par2,              \* dict(model2.named_parameters())
    decay,
    acc_state,         \* "call" | "ok" | "KeyError"
    \* ---- discriminator phase with the centroid term
    dpc,               \* position in the discriminator phase
    batch,             \* per sample: distances, nearest indices, predictions
    centroid_on,       \* centroid_distances is not None
    scaled_data,
    scaled_data_reals,
    d_loss,
    loss_dict,
    \* ---- a checkpoint written by train() and read back by the main block
    ckpt_pc,           \* "save" | "saved" | "loaded"
    run_name,          \* wandb.run.name as characters, NoRun when run is None
    save_i,            \* the iteration counter i at the save
    live,              \* the state_dicts of the saving run
    file,              \* the checkpoint file: its stem and its content
    resumed,           \* start_iter and the state_dicts of the resuming run
    \* ---- sample_data(loader), the generator train() draws real batches from
    data_pc,           \* "suspended" | "running" | "exhausted"
    dataset_len,       \* len(dataset)
    batch_size,        \* args.batch
    it_open,           \* the for of sample_data holds an iterator of loader
    it,                \* the batches that iterator has still to produce
    pass_batches,      \* the batches of the pass that iterator was opened for
    yielded,           \* the batches of that pass yielded so far, in order
    passes,            \* iterators opened so far: 0, 1, or 2 for two and more
    real_img,          \* the batch the last next(loader) returned
    \* ---- mixing_noise()
    mix_pc,            \* "call" | "returned"
    mix_args,          \* batch, latent_dim, prob
    draw,              \* what random.random() returns, if called
    noise,             \* the value mixing_noise returns
    \* ---- generate.py: the main block and generate()
    gen_pc,            \* "main" | "loop" | "done" | "RuntimeError"
    gargs,             \* the parsed arguments of generate.py
    gi,                \* next value the range(args.pics) iterator yields
    mean_latent,       \* None, or what g_ema.mean_latent returned
    mean_calls,        \* calls of g_ema.mean_latent so far
    calls,             \* the invocations of g_ema, in order
    saves,             \* the files save_image wrote, in order
    \* ---- prepare_data.py: prepare()
    prep_pc,           \* "start" | "pool" | "done"
    imgs,              \* dataset.imgs: (file, label) pairs
    sizes,
    n_worker,
    files,             \* the files in sorted order; indices start at 0
    labels,            \* index -> label
    tasks,              \* indices the pool has not handed to a worker yet
    working,           \* indices in resize_worker
    results,           \* results of workers not yet delivered to the loop
    delivered,         \* the indices in the order the loop received them
    total,
    store,             \* the lmdb environment: (key, value) pairs
    \* ---- train(): the processes of a distributed run
    dist_args,         \* the configuration every process was started with
    dist_wandb,        \* the module global wandb of process 0
    rank_pc,           \* process -> where it is in the loop
    rank_idx,          \* process -> next value of its range(args.iter)
    rank_i,            \* process -> its i = idx + args.start_iter
    in_call,           \* process -> it is inside a collective call
    issued,            \* process -> the collective calls it entered, in order
    \* ---- train(): one iteration run twice, with two centroid settings
    pair_pc,           \* run -> "d_phase" | "g_phase" | "done"
    pair_draw,         \* the state and the random draws both runs start from
    pair_cfg,          \* run -> its centroid setting
    pair_gen,          \* run -> the generator's parameter
    pair_disc,         \* run -> the discriminator's parameter
    pair_grads,        \* run -> the gradients its optimizer steps used
    pair_losses        \* run -> loss_dict["d"], loss_dict["g"]

trainVars == <<pc, args, idx, i, steps, ran, gen, disc, g_ema, ada_aug_p,
               p_used, r1_loss, path_loss, mean_path_length, counts, snap,
               rank, wandb, effects, error, grad, optim_steps>>
accVars   == <<par1, par2, decay, acc_state>>
dVars     == <<dpc, batch, centroid_on, scaled_data, scaled_data_reals,
               d_loss, loss_dict>>
ckptVars  == <<ckpt_pc, run_name, save_i, live, file, resumed>>
dataVars  == <<data_pc, dataset_len, batch_size, it_open, it, pass_batches,
               yielded, passes, real_img>>
mixVars   == <<mix_pc, mix_args, draw, noise>>
genVars   == <<gen_pc, gargs, gi, mean_latent, mean_calls, calls, saves>>
prepVars  == <<prep_pc, imgs, sizes, n_worker, files, labels, tasks, working,
               results, delivered, total, store>>
distVars  == <<dist_args, dist_wandb, rank_pc, rank_idx, rank_i, in_call,
               issued>>
pairVars  == <<pair_pc, pair_draw, pair_cfg, pair_gen, pair_disc, pair_grads,
               pair_losses>>
vars      == <<trainVars, accVars, dVars, ckptVars, dataVars, mixVars,
               genVars, prepVars, distVars, pairVars>>

(* What the actions of one part leave alone: the other parts. *)
notTrain  == <<accVars, dVars, ckptVars, dataVars, mixVars, genVars,
               prepVars, distVars, pairVars>>
notAcc    == <<trainVars, dVars, ckptVars, dataVars, mixVars, genVars,
               prepVars, distVars, pairVars>>
notD      == <<trainVars, accVars, ckptVars, dataVars, mixVars, genVars,
               prepVars, distVars, pairVars>>
notCkpt   == <<trainVars, accVars, dVars, dataVars, mixVars, genVars,
               prepVars, distVars, pairVars>>
notData   == <<trainVars, accVars, dVars, ckptVars, mixVars, genVars,
               prepVars, distVars, pairVars>>
notMix    == <<trainVars, accVars, dVars, ckptVars, dataVars, genVars,
               prepVars, distVars, pairVars>>
notGen    == <<trainVars, accVars, dVars, ckptVars, dataVars, mixVars,
               prepVars, distVars, pairVars>>
notPrep   == <<trainVars, accVars, dVars, ckptVars, dataVars, mixVars,
               genVars, distVars, pairVars>>
notDist   == <<trainVars, accVars, dVars, ckptVars, dataVars, mixVars,
               genVars, prepVars, pairVars>>
notPair   == <<trainVars, accVars, dVars, ckptVars, dataVars, mixVars,
               genVars, prepVars, distVars>>

-----------------------------------------------------------------------------
(* Bounds of the model. *)
MaxIter   == 3      \* args.iter ranges over 0..MaxIter
MaxStart  == 3      \* args.start_iter ranges over 0..MaxStart
MaxReg    == 2      \* d_reg_every, g_reg_every range over 1..MaxReg
PLevels   == 2      \* strengths 0/PLevels .. PLevels/PLevels

(* 1.0 in fixed point. *)
One == 10 * 100

(* accum = 0.5 ** (32 / (10 * 1000)) = 0.99778..., in fixed point. *)
accum == 998

(* decay of g_path_regularize, 0.01, as its inverse. *)
PathDecayInv == 100

Min(a, b) == IF a < b THEN a ELSE b

(* The first position of x in sequence s, 0 when absent. *)
Pos(s, x) ==
    IF \E k \in 1..Len(s) : s[k] = x
    THEN CHOOSE k \in 1..Len(s) : s[k] = x /\ \A j \in 1..(k-1) : s[j] # x
    ELSE 0

Has(s, x) == \E k \in 1..Len(s) : s[k] = x

-----------------------------------------------------------------------------
(* accumulate(model1, model2, decay): for k in par1.keys():                *)
(*   par1[k].data.mul_(decay).add_(par2[k].data, alpha=1 - decay).         *)
(* Dictionaries are functions from parameter names to values; the keys are *)
(* visited in the order of the names.  A name of par1 missing from par2    *)
(* raises KeyError at that key, the keys before it already updated and    *)
(* par1[k] itself already multiplied by decay.                             *)
EmaMut(t, s, d) == ((One - d) * t) \div One + (d * s) \div One

Ema(t, s, d) == (t * d) \div One + (s * (One - d)) \div One

RECURSIVE AccFrom(_, _, _, _)
AccFrom(p1, p2, d, todo) ==
    IF todo = {} THEN [par1 |-> p1, par2 |-> p2, state |-> "ok"]
    ELSE LET k == CHOOSE x \in todo : \A y \in todo : x <= y
         IN  IF k \notin DOMAIN p2
             THEN \* mul_(decay) has run on par1[k] when par2[k] is looked up
                  [par1 |-> [p1 EXCEPT ![k] = (p1[k] * d) \div One],
                   par2 |-> p2, state |-> "KeyError"]
             ELSE AccFrom([p1 EXCEPT ![k] = Ema(p1[k], p2[k], d)], p2, d,
                          todo \ {k})

accumulate_common(model1, model2, d) ==
    AccFrom(model1, model2, d, DOMAIN model1 \cap DOMAIN model2)

accumulate(model1, model2, d) == AccFrom(model1, model2, d, DOMAIN model1)

-----------------------------------------------------------------------------
(* The checkpoint file: train() lines 506-514 write it, the main block     *)
(* lines 608-625 read it back.  A path is a sequence of characters.        *)

MaxCkpts == 2       \* saves at i = 0, CkptEvery, .., MaxCkpts * CkptEvery

(* if i % 5000 == 0: the checkpoint interval. *)
CkptEvery == 5000

(* str(i).zfill(6) in both file names. *)
CkptWidth == 6

DigitChars == <<"0", "1", "2", "3", "4", "5", "6", "7", "8", "9">>

IsDigit(c) == \E k \in 1..10 : DigitChars[k] = c

DigitVal(c) == (CHOOSE k \in 1..10 : DigitChars[k] = c) - 1

(* str(n) of a natural number. *)
RECURSIVE str(_)
str(n) ==
    IF n < 10 THEN <<DigitChars[n + 1]>>
    ELSE Append(str(n \div 10), DigitChars[(n % 10) + 1])

(* s.zfill(width) of an unsigned numeral: zeros on the left up to width. *)
RECURSIVE zfill(_, _)
zfill(s, width) == IF Len(s) >= width THEN s ELSE zfill(<<"0">> \o s, width)

(* The position of the last c in s, 0 when absent. *)
LastPos(s, c) ==
    IF \E k \in 1..Len(s) : s[k] = c
    THEN CHOOSE k \in 1..Len(s) : s[k] = c /\ \A j \in (k+1)..Len(s) : s[j] # c
    ELSE 0

(* os.path.basename(p): what follows the last "/". *)
basename(p) == SubSeq(p, LastPos(p, "/") + 1, Len(p))

(* os.path.splitext(name)[0]: what precedes the last ".", the whole name   *)
(* when there is none or when it leads the name.                           *)
splitext_root(name) ==
    IF LastPos(name, ".") > 1 THEN SubSeq(name, 1, LastPos(name, ".") - 1)
    ELSE name

(* What int(s) accepts of an unsigned string: decimal digits, with single  *)
(* underscores between digits.                                             *)
IntLiteral(s) ==
    /\ Len(s) > 0
    /\ IsDigit(s[1])
    /\ IsDigit(s[Len(s)])
    /\ \A k \in 1..Len(s) :
          \/ IsDigit(s[k])
          \/ s[k] = "_" /\ IsDigit(s[k - 1]) /\ IsDigit(s[k + 1])

RECURSIVE DigitsValue(_)
DigitsValue(s) ==
    IF s = <<>> THEN 0
    ELSE LET c     == s[Len(s)]
             front == SubSeq(s, 1, Len(s) - 1)
         IN  IF c = "_" THEN DigitsValue(front)
             ELSE DigitsValue(front) * 10 + DigitVal(c)

(* int(s): the value, or ValueError. *)
int(s) ==
    IF IntLiteral(s) THEN [ok |-> TRUE, v |-> DigitsValue(s)]
    ELSE [ok |-> FALSE, v |-> 0]

(* wandb.run is None. *)
NoRun == <<>>

RunNames == {NoRun, <<"s", "u", "n", "-", "3">>, <<"7">>}

CkptDir == <<"c", "h", "e", "c", "k", "p", "o", "i", "n", "t", "/">>

CkptExt == <<".", "p", "t">>

(* Lines 507-514: f"checkpoint/{wandb.run.name}_{str(i).zfill(6)}.pt" when *)
(* a run exists, f"checkpoint/{str(i).zfill(6)}.pt" otherwise.             *)
CkptPath(run, n) ==
    IF run # NoRun
    THEN CkptDir \o run \o <<"_">> \o zfill(str(n), CkptWidth) \o CkptExt
    ELSE CkptDir \o zfill(str(n), CkptWidth) \o CkptExt

(* Lines 613-618: start_iter = int(splitext(basename(args.ckpt))[0]),      *)
(* left as it was (0, line 586) on ValueError.                             *)
ResumeIter(path, start_iter) ==
    LET parsed == int(splitext_root(basename(path)))
    IN  IF parsed.ok THEN parsed.v ELSE start_iter

StateDicts ==
    [g : {0, One}, d : {0, 1}, g_ema : {0, One}, g_optim : {0, 1},
     d_optim : {0, 1}]

(* The models and optimizers of a run before any checkpoint is loaded. *)
FreshDicts ==
    [g |-> 0 - 1, d |-> 0 - 1, g_ema |-> 0 - 1, g_optim |-> 0 - 1,
     d_optim |-> 0 - 1]

NoFile == [path |-> <<>>, content |-> FreshDicts]

CkptInit ==
    /\ ckpt_pc = "save"
    /\ run_name \in RunNames
    /\ save_i \in {k * CkptEvery : k \in 0..MaxCkpts}
    /\ live \in StateDicts
    /\ file = NoFile
    /\ resumed = [start_iter |-> 0, dicts |-> FreshDicts]

CkptIdle ==
    /\ ckpt_pc = "idle"
    /\ run_name = NoRun
    /\ save_i = 0
    /\ live = FreshDicts
    /\ file = NoFile
    /\ resumed = [start_iter |-> 0, dicts |-> FreshDicts]

(* Lines 506-514: torch.save({"g": .., "d": .., "g_ema": .., "g_optim": .., *)
(* "d_optim": .., ..}, path).                                              *)
SaveCkpt ==
    /\ ckpt_pc = "save"
    /\ file' = [path |-> CkptPath(run_name, save_i), content |-> live]
    /\ ckpt_pc' = "saved"
    /\ UNCHANGED <<run_name, save_i, live, resumed>>
    /\ UNCHANGED notCkpt

(* Lines 608-625: a later run started with --ckpt file.path. *)
LoadCkpt ==
    /\ ckpt_pc = "saved"
    /\ resumed' = [start_iter |-> ResumeIter(file.path, 0),
                   dicts |-> file.content]
    /\ ckpt_pc' = "loaded"
    /\ UNCHANGED <<run_name, save_i, live, file>>
    /\ UNCHANGED notCkpt

-----------------------------------------------------------------------------
(* train(): the iteration loop, lines 226-514.                             *)

NoAug == 0 - 1          \* augment() was not called

adaptiveAnyP == args.augment

adaptive == args.augment /\ args.augment_p = 0

d_regularize_idx == (i - args.start_iter) % args.d_reg_every = 0

d_regularize == i % args.d_reg_every = 0

g_regularize == i % args.g_reg_every = 0

(* The strength the R1 pass hands to augment(real_img, ada_aug_p), line 359. *)
R1AugmentPStale == p_used.d

R1AugmentP == ada_aug_p

(* d_r1_loss: a value fixed by the discriminator's parameters (the batch   *)
(* is taken as given).                                                     *)
d_r1_loss(d) == d * One

(* g_path_regularize, lines 141-145: the new path mean and the penalty,    *)
(* from the mean path length of the batch.                                 *)
g_path_regularize(lengths, mpl) ==
    LET path_mean == mpl + (lengths - mpl) \div PathDecayInv
    IN  [path_penalty |-> ((lengths - path_mean) * (lengths - path_mean)) \div One,
         path_mean    |-> path_mean]

(* The path lengths of a batch: fixed by the generator's parameters. *)
PathLengths(g) == g + One

(* Line 261: if i > args.iter: break, with i = idx + args.start_iter. *)
BreakCondOffByOne == idx + args.start_iter >= args.iter

BreakCond == idx + args.start_iter > args.iter

(* g_ema after g_optim.step(): g_optim holds generator.parameters()        *)
(* (line 603), and g_ema is a module of its own (line 596).                *)
OptimStepEmaShared(e, g) == g

OptimStepEma(e, g) == e

Step(name) == steps' = Append(steps, name)

(* Lines 90-92: requires_grad(model, flag) sets p.requires_grad = flag on  *)
(* every parameter of the model.                                           *)
requires_grad(flags, model, flag) == [flags EXCEPT ![model] = flag]

(* Parameters of a freshly built Generator or Discriminator (lines 582-590)*)
(* require gradients: the default of torch.nn.Parameter.                   *)
ModuleDefault == [generator |-> TRUE, discriminator |-> TRUE]

(* Lines 269-270, at the top of the discriminator's phase. *)
DPhaseFlags(flags) ==
    requires_grad(requires_grad(flags, "generator", FALSE),
                  "discriminator", TRUE)

(* Lines 374-375 without line 375: the discriminator stays trainable. *)
GPhaseFlagsStale(flags) == requires_grad(flags, "generator", TRUE)

(* Lines 374-375, at the top of the generator's phase. *)
GPhaseFlags(flags) ==
    requires_grad(requires_grad(flags, "generator", TRUE),
                  "discriminator", FALSE)

(* d_optim.step() (lines 347, 370) and g_optim.step() (lines 435, 454),   *)
(* recorded with the flags the step runs under.                            *)
OptimStep(optim, flags) ==
    optim_steps' = Append(optim_steps, [optim |-> optim, grad |-> flags])

(* get_rank() of the processes of a run. *)
Ranks == {0, 1}

(* if i % 100 == 0: the sample interval. *)
SampleEvery == 100

(* --augment_p is a float the parser does not restrict: below 0, in [0,1] *)
(* and above 1.                                                            *)
AugmentPs == (0 - 1)..(PLevels + 1)

(* Runs resumed one iteration before a sample and a checkpoint fall due:   *)
(* start_iter = s, iter = s + 2.                                           *)
Resumes == {SampleEvery - 1, CkptEvery - 1}

ArgsSet ==
    [iter : 0..MaxIter, start_iter : 0..MaxStart,
     d_reg_every : 1..MaxReg, g_reg_every : 1..MaxReg,
     augment : BOOLEAN, augment_p : AugmentPs, wandb : BOOLEAN]
    \cup
    {[iter |-> s + 2, start_iter |-> s, d_reg_every |-> d, g_reg_every |-> g,
      augment |-> a, augment_p |-> p, wandb |-> w] :
        s \in Resumes, d \in {MaxReg}, g \in {MaxReg}, a \in BOOLEAN,
        p \in {0}, w \in BOOLEAN}

TrainInit ==
    /\ args \in ArgsSet
    /\ rank \in Ranks
    /\ wandb \in {"imported", "missing"}
    /\ effects = {}
    /\ error = "none"
    /\ grad = ModuleDefault
    /\ optim_steps = <<>>
    /\ pc = "for"
    /\ idx = 0
    /\ i = 0 - 1
    /\ steps = <<>>
    /\ ran = <<>>
    /\ gen = 0
    /\ disc = 0
    /\ g_ema \in {0, One}     \* accumulate(g_ema, generator, 0), or a checkpoint's
    /\ ada_aug_p = IF args.augment_p > 0 THEN args.augment_p ELSE 0
    /\ p_used = [d |-> NoAug, r1 |-> NoAug, g |-> NoAug]
    /\ r1_loss = 0
    /\ path_loss = 0
    /\ mean_path_length = 0
    /\ counts = [d |-> 0, g |-> 0, acc |-> 0]
    /\ snap = [r1_loss |-> 0, path_loss |-> 0, mean_path_length |-> 0,
               g_ema |-> g_ema]

TrainIdle ==
    /\ args = [iter |-> 0, start_iter |-> 0, d_reg_every |-> 1,
               g_reg_every |-> 1, augment |-> FALSE, augment_p |-> 0,
               wandb |-> FALSE]
    /\ rank = 0
    /\ wandb = "missing"
    /\ effects = {}
    /\ error = "none"
    /\ grad = ModuleDefault
    /\ optim_steps = <<>>
    /\ pc = "idle"
    /\ idx = 0
    /\ i = 0 - 1
    /\ steps = <<>>
    /\ ran = <<>>
    /\ gen = 0
    /\ disc = 0
    /\ g_ema = 0
    /\ ada_aug_p = 0
    /\ p_used = [d |-> NoAug, r1 |-> NoAug, g |-> NoAug]
    /\ r1_loss = 0
    /\ path_loss = 0
    /\ mean_path_length = 0
    /\ counts = [d |-> 0, g |-> 0, acc |-> 0]
    /\ snap = [r1_loss |-> 0, path_loss |-> 0, mean_path_length |-> 0,
               g_ema |-> g_ema]

(* for idx in pbar: range(args.iter) is exhausted. *)
LoopExhausted ==
    /\ pc = "for"
    /\ idx >= args.iter
    /\ pc' = "done"
    /\ UNCHANGED <<args, idx, i, steps, ran, gen, disc, g_ema, ada_aug_p,
                   p_used, r1_loss, path_loss, mean_path_length, counts, snap>>
    /\ UNCHANGED <<rank, wandb, effects, error>>
    /\ UNCHANGED <<grad, optim_steps>>
    /\ UNCHANGED notTrain

(* i = idx + args.start_iter; if i > args.iter: break. *)
LoopBreak ==
    /\ pc = "for"
    /\ idx < args.iter
    /\ BreakCond
    /\ i' = idx + args.start_iter
    /\ idx' = idx + 1
    /\ pc' = "done"
    /\ UNCHANGED <<args, steps, ran, gen, disc, g_ema, ada_aug_p, p_used,
                   r1_loss, path_loss, mean_path_length, counts, snap>>
    /\ UNCHANGED <<rank, wandb, effects, error>>
    /\ UNCHANGED <<grad, optim_steps>>
    /\ UNCHANGED notTrain

LoopEnter ==
    /\ pc = "for"
    /\ idx < args.iter
    /\ ~BreakCond
    /\ i' = idx + args.start_iter
    /\ idx' = idx + 1
    /\ ran' = Append(ran, idx + args.start_iter)
    /\ steps' = <<>>
    /\ counts' = [d |-> 0, g |-> 0, acc |-> 0]
    /\ p_used' = [d |-> NoAug, r1 |-> NoAug, g |-> NoAug]
    /\ snap' = [r1_loss |-> r1_loss, path_loss |-> path_loss,
                mean_path_length |-> mean_path_length, g_ema |-> g_ema]
    /\ pc' = "d_step"
    /\ UNCHANGED <<args, gen, disc, g_ema, ada_aug_p, r1_loss, path_loss,
                   mean_path_length>>
    /\ UNCHANGED <<rank, wandb, effects, error>>
    /\ optim_steps' = <<>>
    /\ UNCHANGED grad
    /\ UNCHANGED notTrain

(* Lines 266-347: the discriminator's primary step. *)
DStep ==
    /\ pc = "d_step"
    /\ p_used' = [p_used EXCEPT !.d = IF args.augment THEN ada_aug_p ELSE NoAug]
    /\ disc' = disc + 1
    /\ counts' = [counts EXCEPT !.d = @ + 1]
    /\ Step("d_step")
    /\ pc' = "tune"
    /\ UNCHANGED <<args, idx, i, ran, gen, g_ema, ada_aug_p, r1_loss,
                   path_loss, mean_path_length, snap>>
    /\ UNCHANGED <<rank, wandb, effects, error>>
    /\ grad' = DPhaseFlags(grad)
    /\ OptimStep("d_optim", DPhaseFlags(grad))
    /\ UNCHANGED notTrain

(* Lines 349-351: ada_aug_p = ada_augment.tune(real_pred). *)
Tune ==
    /\ pc = "tune"
    /\ adaptive
    /\ \E p \in 0..PLevels : ada_aug_p' = p
    /\ Step("tune")
    /\ pc' = "r1"
    /\ UNCHANGED <<args, idx, i, ran, gen, disc, g_ema, p_used, r1_loss,
                   path_loss, mean_path_length, counts, snap>>
    /\ UNCHANGED <<rank, wandb, effects, error>>
    /\ UNCHANGED <<grad, optim_steps>>
    /\ UNCHANGED notTrain

TuneSkip ==
    /\ pc = "tune"
    /\ ~adaptive
    /\ pc' = "r1"
    /\ UNCHANGED <<args, idx, i, steps, ran, gen, disc, g_ema, ada_aug_p,
                   p_used, r1_loss, path_loss, mean_path_length, counts, snap>>
    /\ UNCHANGED <<rank, wandb, effects, error>>
    /\ UNCHANGED <<grad, optim_steps>>
    /\ UNCHANGED notTrain

(* Lines 353-372: the R1 pass. *)
R1Pass ==
    /\ pc = "r1"
    /\ d_regularize
    /\ p_used' = [p_used EXCEPT !.r1 = IF args.augment THEN R1AugmentP ELSE NoAug]
    /\ r1_loss' = d_r1_loss(disc)
    /\ disc' = disc + 1
    /\ counts' = [counts EXCEPT !.d = @ + 1]
    /\ Step("r1")
    /\ pc' = "g_step"
    /\ UNCHANGED <<args, idx, i, ran, gen, g_ema, ada_aug_p, path_loss,
                   mean_path_length, snap>>
    /\ UNCHANGED <<rank, wandb, effects, error>>
    /\ OptimStep("d_optim", grad)
    /\ UNCHANGED grad
    /\ UNCHANGED notTrain

R1Skip ==
    /\ pc = "r1"
    /\ ~d_regularize
    /\ pc' = "g_step"
    /\ UNCHANGED <<args, idx, i, steps, ran, gen, disc, g_ema, ada_aug_p,
                   p_used, r1_loss, path_loss, mean_path_length, counts, snap>>
    /\ UNCHANGED <<rank, wandb, effects, error>>
    /\ UNCHANGED <<grad, optim_steps>>
    /\ UNCHANGED notTrain

(* Lines 374-435: the generator's primary step. *)
GStep ==
    /\ pc = "g_step"
    /\ p_used' = [p_used EXCEPT !.g = IF args.augment THEN ada_aug_p ELSE NoAug]
    /\ gen' = gen + One
    /\ g_ema' = OptimStepEma(g_ema, gen + One)
    /\ counts' = [counts EXCEPT !.g = @ + 1]
    /\ Step("g_step")
    /\ pc' = "path"
    /\ UNCHANGED <<args, idx, i, ran, disc, ada_aug_p, r1_loss,
                   path_loss, mean_path_length, snap>>
    /\ UNCHANGED <<rank, wandb, effects, error>>
    /\ grad' = GPhaseFlags(grad)
    /\ OptimStep("g_optim", GPhaseFlags(grad))
    /\ UNCHANGED notTrain

(* Lines 437-459: the path-length pass. *)
PathPass ==
    /\ pc = "path"
    /\ g_regularize
    /\ LET r == g_path_regularize(PathLengths(gen), mean_path_length)
       IN  /\ path_loss' = r.path_penalty
           /\ mean_path_length' = r.path_mean
    /\ gen' = gen + One
    /\ g_ema' = OptimStepEma(g_ema, gen + One)
    /\ counts' = [counts EXCEPT !.g = @ + 1]
    /\ Step("path")
    /\ pc' = "ema"
    /\ UNCHANGED <<args, idx, i, ran, disc, ada_aug_p, p_used,
                   r1_loss, snap>>
    /\ UNCHANGED <<rank, wandb, effects, error>>
    /\ OptimStep("g_optim", grad)
    /\ UNCHANGED grad
    /\ UNCHANGED notTrain

PathSkip ==
    /\ pc = "path"
    /\ ~g_regularize
    /\ pc' = "ema"
    /\ UNCHANGED <<args, idx, i, steps, ran, gen, disc, g_ema, ada_aug_p,
                   p_used, r1_loss, path_loss, mean_path_length, counts, snap>>
    /\ UNCHANGED <<rank, wandb, effects, error>>
    /\ UNCHANGED <<grad, optim_steps>>
    /\ UNCHANGED notTrain

(* Line 461: accumulate(g_ema, g_module, accum). *)
EmaUpdateEarly ==
    /\ pc = "g_step"
    /\ ~Has(steps, "ema")
    /\ g_ema' = accumulate(1 :> g_ema, 1 :> gen, accum).par1[1]
    /\ counts' = [counts EXCEPT !.acc = @ + 1]
    /\ Step("ema")
    /\ UNCHANGED <<pc, args, idx, i, ran, gen, disc, ada_aug_p, p_used, r1_loss,
                   path_loss, mean_path_length, snap>>
    /\ UNCHANGED <<rank, wandb, effects, error>>
    /\ UNCHANGED <<grad, optim_steps>>
    /\ UNCHANGED notTrain

EmaUpdate ==
    /\ pc = "ema"
    /\ g_ema' = accumulate(1 :> g_ema, 1 :> gen, accum).par1[1]
    /\ counts' = [counts EXCEPT !.acc = @ + 1]
    /\ Step("ema")
    /\ pc' = "reduce"
    /\ UNCHANGED <<args, idx, i, ran, gen, disc, ada_aug_p, p_used, r1_loss,
                   path_loss, mean_path_length, snap>>
    /\ UNCHANGED <<rank, wandb, effects, error>>
    /\ UNCHANGED <<grad, optim_steps>>
    /\ UNCHANGED notTrain

(* Lines 463-473: loss_reduced = reduce_loss_dict(loss_dict). *)
Reduce ==
    /\ pc = "reduce"
    /\ Step("reduce")
    /\ pc' = "side"
    /\ UNCHANGED <<args, idx, i, ran, gen, disc, g_ema, ada_aug_p, p_used,
                   r1_loss, path_loss, mean_path_length, counts, snap>>
    /\ UNCHANGED <<rank, wandb, effects, error>>
    /\ UNCHANGED <<grad, optim_steps>>
    /\ UNCHANGED notTrain

(* Line 475: if get_rank() == 0. *)
IsLoggerAnyRank == TRUE

IsLogger == rank = 0

(* Lines 480, 503: if wandb and args.wandb. *)
Telemetry == wandb = "imported" /\ args.wandb

(* Lines 691-692: wandb.init() runs on rank 0 when wandb was imported and  *)
(* --wandb is set; wandb.run is None otherwise.                            *)
RunExists == rank = 0 /\ wandb = "imported" /\ args.wandb

TrainRun == IF RunExists THEN <<"s", "u", "n", "-", "3">> ELSE NoRun

SampleDir == <<"s", "a", "m", "p", "l", "e", "/">>

SampleExt == <<".", "p", "n", "g">>

(* Line 490: f"sample/{str(i).zfill(6)}.png". *)
SamplePath(n) == SampleDir \o zfill(str(n), CkptWidth) \o SampleExt

Effect(kind, path) == [kind |-> kind, i |-> i, path |-> path]

(* Line 475 on a rank other than 0: the block is skipped. *)
SideSkip ==
    /\ pc = "side"
    /\ ~IsLogger
    /\ Step("side")
    /\ pc' = "for"
    /\ UNCHANGED <<args, idx, i, ran, gen, disc, g_ema, ada_aug_p, p_used,
                   r1_loss, path_loss, mean_path_length, counts, snap>>
    /\ UNCHANGED <<rank, wandb, effects, error>>
    /\ UNCHANGED <<grad, optim_steps>>
    /\ UNCHANGED notTrain

(* Lines 476-484: pbar.set_description(...), then wandb.log(...) under     *)
(* "if wandb and args.wandb".                                              *)
Log ==
    /\ pc = "side"
    /\ IsLogger
    /\ effects' = effects \cup {Effect("describe", <<>>)}
                          \cup (IF Telemetry THEN {Effect("log", <<>>)} ELSE {})
    /\ Step("side")
    /\ pc' = "sample"
    /\ UNCHANGED <<args, idx, i, ran, gen, disc, g_ema, ada_aug_p, p_used,
                   r1_loss, path_loss, mean_path_length, counts, snap>>
    /\ UNCHANGED <<rank, wandb, error>>
    /\ UNCHANGED <<grad, optim_steps>>
    /\ UNCHANGED notTrain

(* Lines 480-484 when wandb.log raises: nothing catches the exception. *)
LogRaises ==
    /\ pc = "side"
    /\ IsLogger
    /\ Telemetry
    /\ effects' = effects \cup {Effect("describe", <<>>)}
    /\ Step("side")
    /\ pc' = "aborted"
    /\ error' = "wandb.log"
    /\ UNCHANGED <<args, idx, i, ran, gen, disc, g_ema, ada_aug_p, p_used,
                   r1_loss, path_loss, mean_path_length, counts, snap>>
    /\ UNCHANGED <<rank, wandb>>
    /\ UNCHANGED <<grad, optim_steps>>
    /\ UNCHANGED notTrain

(* Lines 486-504: g_ema.eval(), the sample grid under no_grad, save_image, *)
(* send_telegram_picture, then wandb.log of the grid.                      *)
Sample ==
    /\ pc = "sample"
    /\ i % SampleEvery = 0
    /\ effects' = effects
          \cup {Effect("sample", SamplePath(i)), Effect("telegram", <<>>)}
          \cup (IF Telemetry THEN {Effect("grid", <<>>)} ELSE {})
    /\ pc' = "ckpt"
    /\ UNCHANGED <<args, idx, i, steps, ran, gen, disc, g_ema, ada_aug_p,
                   p_used, r1_loss, path_loss, mean_path_length, counts, snap>>
    /\ UNCHANGED <<rank, wandb, error>>
    /\ UNCHANGED <<grad, optim_steps>>
    /\ UNCHANGED notTrain

(* Lines 501, 504 when send_telegram_picture, or the wandb.log of the      *)
(* grid, raises: the image file is written, nothing catches the exception. *)
SampleRaises ==
    /\ pc = "sample"
    /\ i % SampleEvery = 0
    /\ \E failing \in {"telegram"} \cup (IF Telemetry THEN {"grid"} ELSE {}) :
          /\ effects' = effects
                \cup {Effect("sample", SamplePath(i))}
                \cup (IF failing = "grid" THEN {Effect("telegram", <<>>)}
                                          ELSE {})
          /\ error' = IF failing = "grid" THEN "wandb.log"
                                          ELSE "send_telegram_picture"
    /\ pc' = "aborted"
    /\ UNCHANGED <<args, idx, i, steps, ran, gen, disc, g_ema, ada_aug_p,
                   p_used, r1_loss, path_loss, mean_path_length, counts, snap>>
    /\ UNCHANGED <<rank, wandb>>
    /\ UNCHANGED <<grad, optim_steps>>
    /\ UNCHANGED notTrain

SampleSkip ==
    /\ pc = "sample"
    /\ i % SampleEvery # 0
    /\ pc' = "ckpt"
    /\ UNCHANGED <<args, idx, i, steps, ran, gen, disc, g_ema, ada_aug_p,
                   p_used, r1_loss, path_loss, mean_path_length, counts, snap>>
    /\ UNCHANGED <<rank, wandb, effects, error>>
    /\ UNCHANGED <<grad, optim_steps>>
    /\ UNCHANGED notTrain

(* Lines 506-514: torch.save under the name CkptPath gives.                *)
Checkpoint ==
    /\ pc = "ckpt"
    /\ i % CkptEvery = 0
    /\ wandb = "imported"
    /\ effects' = effects \cup {Effect("ckpt", CkptPath(TrainRun, i))}
    /\ pc' = "for"
    /\ UNCHANGED <<args, idx, i, steps, ran, gen, disc, g_ema, ada_aug_p,
                   p_used, r1_loss, path_loss, mean_path_length, counts, snap>>
    /\ UNCHANGED <<rank, wandb, error>>
    /\ UNCHANGED <<grad, optim_steps>>
    /\ UNCHANGED notTrain

(* Line 507 when the import of lines 24-28 failed: wandb is None and       *)
(* wandb.run raises AttributeError; nothing is saved.                      *)
CheckpointRaises ==
    /\ pc = "ckpt"
    /\ i % CkptEvery = 0
    /\ wandb = "missing"
    /\ pc' = "aborted"
    /\ error' = "AttributeError"
    /\ UNCHANGED <<args, idx, i, steps, ran, gen, disc, g_ema, ada_aug_p,
                   p_used, r1_loss, path_loss, mean_path_length, counts, snap>>
    /\ UNCHANGED <<rank, wandb, effects>>
    /\ UNCHANGED <<grad, optim_steps>>
    /\ UNCHANGED notTrain

CheckpointSkip ==
    /\ pc = "ckpt"
    /\ i % CkptEvery # 0
    /\ pc' = "for"
    /\ UNCHANGED <<args, idx, i, steps, ran, gen, disc, g_ema, ada_aug_p,
                   p_used, r1_loss, path_loss, mean_path_length, counts, snap>>
    /\ UNCHANGED <<rank, wandb, effects, error>>
    /\ UNCHANGED <<grad, optim_steps>>
    /\ UNCHANGED notTrain

TrainNext ==
    \/ LoopExhausted \/ LoopBreak \/ LoopEnter
    \/ DStep \/ Tune \/ TuneSkip \/ R1Pass \/ R1Skip
    \/ GStep \/ PathPass \/ PathSkip
    \/ EmaUpdate \/ Reduce
    \/ SideSkip \/ Log \/ LogRaises
    \/ Sample \/ SampleRaises \/ SampleSkip
    \/ Checkpoint \/ CheckpointRaises \/ CheckpointSkip

-----------------------------------------------------------------------------
(* accumulate() on its own: two parameter dictionaries and a decay.        *)

MaxParams == 3                        \* parameter names are 1..MaxParams

ParamVals == {0, One}

Decays == {0, 1, 250, accum, One - 1}  \* 0 is the call of line 598

Dicts == UNION {[names -> ParamVals] : names \in SUBSET (1..MaxParams)}

AccInit ==
    /\ par1 \in Dicts
    /\ par2 \in Dicts
    /\ decay \in Decays
    /\ acc_state = "call"

AccIdle ==
    /\ par1 = <<>>
    /\ par2 = <<>>
    /\ decay = 0
    /\ acc_state = "idle"

AccCall ==
    /\ acc_state = "call"
    /\ LET r == accumulate(par1, par2, decay)
       IN  /\ par1' = r.par1
           /\ par2' = r.par2
           /\ acc_state' = r.state
    /\ UNCHANGED decay
    /\ UNCHANGED notAcc

-----------------------------------------------------------------------------
(* The discriminator phase of one iteration, lines 274-347, with the       *)
(* centroid term.  Distances and predictions are whole numbers, losses     *)
(* fixed point; a float is [nan, v] so that the mean of an empty tensor    *)
(* is representable.                                                       *)

MaxBatch == 2                         \* args.batch

NumScalers == 7                       \* len(robustscalers)

(* Nearest-centroid indices: torch.min over the rows of the centroids      *)
(* file, which may hold more rows than there are scalers.                  *)
IndexSet == {0, 1, NumScalers - 1, NumScalers}

(* (distance of the fake, distance of the real) to their nearest centroid. *)
DistPairs == {<<3, 5>>, <<8, 3>>}

(* (real_pred, fake_pred) of the first sample; sample k adds k - 1. *)
PredPairs == {<<2, 0 - 1>>, <<0, 1>>}

(* The fitted RobustScaler of class c (c = 0..6): center_ and scale_. *)
robustscalers ==
    [c \in 0..(NumScalers - 1) |-> [center |-> c + 1, scale |-> 1 + (c % 2)]]

(* RobustScaler.transform: (x - center_) / scale_. *)
transform(sc, x) == (x - sc.center) \div sc.scale

Num(x) == [nan |-> FALSE, v |-> x]
NaN == [nan |-> TRUE, v |-> 0]
FAdd(a, b) == IF a.nan \/ b.nan THEN NaN ELSE Num(a.v + b.v)

(* F.softplus on whole numbers, in fixed point: ln(1 + e^x). *)
SoftplusTable ==
    <<0, 1, 2, 7, 18, 49, 127, 313, 693,
      1313, 2127, 3049, 4018, 5007, 6002, 7001, 8000>>

softplus(x) ==
    IF x > 8 THEN x * One
    ELSE IF x < 0 - 8 THEN 0
    ELSE SoftplusTable[x + 9]

RECURSIVE SumSeq(_)
SumSeq(s) == IF s = <<>> THEN 0 ELSE Head(s) + SumSeq(Tail(s))

(* tensor.mean(): NaN for an empty tensor. *)
mean(s) == IF Len(s) = 0 THEN NaN ELSE Num(SumSeq(s) \div Len(s))

SoftplusAll(s) == [k \in 1..Len(s) |-> softplus(s[k])]
NegAll(s) == [k \in 1..Len(s) |-> 0 - s[k]]

(* Lines 291-312: one pass of the loop over                                *)
(* zip(centroid_distances_torch, indices, ..._reals, indices_reals): the   *)
(* chain of "if index == c" appends to both lists with robustscalers[c],   *)
(* c the index of the fake sample; no branch matches an index above 6.     *)
ScalerIndexReals(sample) == sample.index

RECURSIVE ScaleLoop(_, _, _)
ScaleLoop(samples, fakes, reals) ==
    IF samples = <<>> THEN [scaled_data |-> fakes, scaled_data_reals |-> reals]
    ELSE LET s == Head(samples)
         IN  IF s.index \in 0..(NumScalers - 1)
             THEN ScaleLoop(Tail(samples),
                    Append(fakes, transform(robustscalers[s.index], s.val)),
                    Append(reals, transform(robustscalers[ScalerIndexReals(s)],
                                            s.val_reals)))
             ELSE ScaleLoop(Tail(samples), fakes, reals)

(* d_logistic_loss, lines 109-116. *)
d_logistic_loss_with_reals(real_pred, fake_pred, centroid_distances) ==
    [loss |-> FAdd(FAdd(mean(SoftplusAll(NegAll(real_pred))),
                        mean(SoftplusAll(fake_pred))),
                   FAdd(mean(SoftplusAll(centroid_distances)),
                        mean(SoftplusAll(scaled_data_reals)))),
     fake_distance_loss |-> mean(SoftplusAll(centroid_distances))]

d_logistic_loss(real_pred, fake_pred, centroid_distances) ==
    LET real_loss == SoftplusAll(NegAll(real_pred))
        fake_loss == SoftplusAll(fake_pred)
        fake_distance_loss == mean(SoftplusAll(centroid_distances))
    IN  [loss |-> FAdd(FAdd(mean(real_loss), mean(fake_loss)), fake_distance_loss),
         fake_distance_loss |-> fake_distance_loss]

d_logistic_loss_plain(real_pred, fake_pred) ==
    FAdd(mean(SoftplusAll(NegAll(real_pred))), mean(SoftplusAll(fake_pred)))

Samples ==
    {[val |-> dp[1], index |-> ix, val_reals |-> dp[2], index_reals |-> ixr] :
        dp \in DistPairs, ix \in IndexSet, ixr \in IndexSet}

RealPred(b) == [k \in 1..MaxBatch |-> b.preds[1] + k - 1]
FakePred(b) == [k \in 1..MaxBatch |-> b.preds[2] + k - 1]

NoLoss == [d |-> Num(0), distance_loss |-> Num(0), distance_loss_reals |-> Num(0),
           real_score |-> Num(0), fake_score |-> Num(0)]

DInit ==
    /\ batch \in [samples : [1..MaxBatch -> Samples], preds : PredPairs]
    /\ centroid_on \in BOOLEAN
    /\ dpc = "normalize"
    /\ scaled_data = <<>>            \* None
    /\ scaled_data_reals = <<>>      \* 0
    /\ d_loss = Num(0)
    /\ loss_dict = NoLoss

DIdle ==
    /\ batch = [samples |-> <<>>, preds |-> <<0, 0>>]
    /\ centroid_on = FALSE
    /\ dpc = "idle"
    /\ scaled_data = <<>>
    /\ scaled_data_reals = <<>>
    /\ d_loss = Num(0)
    /\ loss_dict = NoLoss

(* Lines 280-316. *)
Normalize ==
    /\ dpc = "normalize"
    /\ centroid_on
    /\ LET r == ScaleLoop(batch.samples, <<>>, <<>>)
       IN  /\ scaled_data' = r.scaled_data
           /\ scaled_data_reals' = r.scaled_data_reals
    /\ dpc' = "loss"
    /\ UNCHANGED <<batch, centroid_on, d_loss, loss_dict>>
    /\ UNCHANGED notD

NormalizeSkip ==
    /\ dpc = "normalize"
    /\ ~centroid_on
    /\ dpc' = "loss"
    /\ UNCHANGED <<batch, centroid_on, scaled_data, scaled_data_reals, d_loss,
                   loss_dict>>
    /\ UNCHANGED notD

(* Lines 325-347: the loss, loss_dict, d_loss.backward(), d_optim.step(). *)
DLoss ==
    /\ dpc = "loss"
    /\ LET real_pred == RealPred(batch)
           fake_pred == FakePred(batch)
           r == d_logistic_loss(real_pred, fake_pred, scaled_data)
           loss == IF centroid_on THEN r.loss
                   ELSE d_logistic_loss_plain(real_pred, fake_pred)
       IN  /\ d_loss' = loss
           /\ loss_dict' =
                [d |-> loss,
                 distance_loss |->
                    IF centroid_on THEN r.fake_distance_loss
                    ELSE mean(SoftplusAll(<<0 - 100>>)),
                 distance_loss_reals |->
                    IF centroid_on THEN mean(SoftplusAll(scaled_data_reals))
                    ELSE mean(SoftplusAll(<<0 - 100>>)),
                 real_score |-> mean(real_pred),
                 fake_score |-> mean(fake_pred)]
    /\ dpc' = "stepped"
    /\ UNCHANGED <<batch, centroid_on, scaled_data, scaled_data_reals>>
    /\ UNCHANGED notD

-----------------------------------------------------------------------------
(* sample_data(loader), lines 103-106, over the DataLoader of lines        *)
(* 679-681: batch_size = args.batch, a shuffling sampler, drop_last=True.  *)

MaxData == 4        \* len(dataset) ranges over 0..MaxData

BatchSizes == {1, 2}

(* The orders a RandomSampler can visit n samples in. *)
Perms(n) == {f \in [1..n -> 1..n] : \A a, b \in 1..n : f[a] = f[b] => a = b}

(* The batches of one pass: consecutive groups of b indices of the         *)
(* sampler's order, the incomplete last group dropped.                     *)
BatchesOf(order, b) ==
    [k \in 1..(Len(order) \div b) |-> SubSeq(order, (k - 1) * b + 1, k * b)]

(* while True (line 104). *)
WhileOnce == FALSE

WhileTrue == TRUE

DataInit ==
    /\ data_pc = "suspended"
    /\ dataset_len \in 0..MaxData
    /\ batch_size \in BatchSizes
    /\ it_open = FALSE
    /\ it = <<>>
    /\ pass_batches = <<>>
    /\ yielded = <<>>
    /\ passes = 0
    /\ real_img = <<>>

DataIdle ==
    /\ data_pc = "idle"
    /\ dataset_len = 0
    /\ batch_size = 1
    /\ it_open = FALSE
    /\ it = <<>>
    /\ pass_batches = <<>>
    /\ yielded = <<>>
    /\ passes = 0
    /\ real_img = <<>>

(* Line 266: real_img = next(loader) resumes the generator. *)
RequestNext ==
    /\ data_pc = "suspended"
    /\ data_pc' = "running"
    /\ UNCHANGED <<dataset_len, batch_size, it_open, it, pass_batches, yielded,
                   passes, real_img>>
    /\ UNCHANGED notData

(* Line 105, entering the for: iter(loader) draws the order of a pass. *)
StartPass ==
    /\ data_pc = "running"
    /\ ~it_open
    /\ \E order \in Perms(dataset_len) :
          /\ pass_batches' = BatchesOf(order, batch_size)
          /\ it' = BatchesOf(order, batch_size)
    /\ it_open' = TRUE
    /\ yielded' = <<>>
    /\ passes' = Min(passes + 1, 2)
    /\ UNCHANGED <<data_pc, dataset_len, batch_size, real_img>>
    /\ UNCHANGED notData

(* Lines 105-106: the iterator produces its next batch, which is yielded   *)
(* to the caller of next().                                                *)
Yield ==
    /\ data_pc = "running"
    /\ it_open
    /\ it # <<>>
    /\ real_img' = Head(it)
    /\ it' = Tail(it)
    /\ yielded' = Append(yielded, Head(it))
    /\ data_pc' = "suspended"
    /\ UNCHANGED <<dataset_len, batch_size, it_open, pass_batches, passes>>
    /\ UNCHANGED notData

(* Line 105, the iterator is exhausted: the for ends and while True        *)
(* (line 104) starts it again.                                             *)
PassOver ==
    /\ data_pc = "running"
    /\ it_open
    /\ it = <<>>
    /\ it_open' = FALSE
    /\ data_pc' = IF WhileTrue THEN "running" ELSE "exhausted"
    /\ UNCHANGED <<dataset_len, batch_size, it, pass_batches, yielded, passes,
                   real_img>>
    /\ UNCHANGED notData

-----------------------------------------------------------------------------
(* make_noise and mixing_noise, lines 148-162.  A tensor is its shape; a   *)
(* returned container is a list or a tuple of tensors.                     *)

Latents == {2, 512}

(* --mixing values, fixed point. *)
Probs == {0, 250, 900, One}

(* random.random() returns a float in [0.0, 1.0). *)
Draws == {0, 249, 250, 899, 900, One - 1}

(* torch.randn of a shape. *)
randn(shape) == [shape |-> shape]

(* tensor.unbind(0): the tuple of the slices along dimension 0. *)
unbind0(t) ==
    [kind |-> "tuple",
     items |-> [k \in 1..t.shape[1] |-> [shape |-> Tail(t.shape)]]]

List(items) == [kind |-> "list", items |-> items]

make_noise(b, latent_dim, n_noise) ==
    IF n_noise = 1 THEN randn(<<b, latent_dim>>)
    ELSE unbind0(randn(<<n_noise, b, latent_dim>>))

(* Line 158: prob > 0 and random.random() < prob. *)
MixCondLe(prob, r) == prob > 0 /\ r <= prob

MixCond(prob, r) == prob > 0 /\ r < prob

mixing_noise(b, latent_dim, prob, r) ==
    IF MixCond(prob, r) THEN make_noise(b, latent_dim, 2)
    ELSE List(<<make_noise(b, latent_dim, 1)>>)

NoNoise == [kind |-> "none", items |-> <<>>]

MixInit ==
    /\ mix_pc = "call"
    /\ mix_args \in [batch : 1..MaxBatch, latent_dim : Latents, prob : Probs]
    /\ draw \in Draws
    /\ noise = NoNoise

MixIdle ==
    /\ mix_pc = "idle"
    /\ mix_args = [batch |-> 1, latent_dim |-> 2, prob |-> 0]
    /\ draw = 0
    /\ noise = NoNoise

MixCall ==
    /\ mix_pc = "call"
    /\ noise' = mixing_noise(mix_args.batch, mix_args.latent_dim, mix_args.prob,
                             draw)
    /\ mix_pc' = "returned"
    /\ UNCHANGED <<mix_args, draw>>
    /\ UNCHANGED notMix

-----------------------------------------------------------------------------
(* generate.py: the main block, lines 151-157, and generate(), lines 8-55. *)

MaxPics == 2        \* args.pics ranges over 0..MaxPics

(* for label in range(0,7): the classes of the sweep (line 18). *)
SweepClasses == 7

(* --label: -1 for all classes, or a class. *)
AllLabels == 0 - 1

LabelsGiven == {0, 2}

NumClasses == {3, SweepClasses, SweepClasses + 1}

(* --truncation, fixed point: below, at and above 1. *)
Truncations == {500, One, 1500}

None == [none |-> TRUE, v |-> 0]

(* What g_ema.mean_latent(args.truncation_mean) can return. *)
MeanLatents == {[none |-> FALSE, v |-> 1], [none |-> FALSE, v |-> 2]}

(* Line 151: if args.truncation < 1. *)
NeedsMeanLe == gargs.truncation <= One

NeedsMean == gargs.truncation < One

(* torch.nn.functional.one_hot(labels, num_classes) accepts the class      *)
(* values 0..num_classes-1 and raises RuntimeError on any other.           *)
OneHotOk(label, num_classes) == label >= 0 /\ label < num_classes

(* g_ema(.., truncation=args.truncation, truncation_latent=mean_latent). *)
GCall(label) ==
    [i |-> gi, label |-> label, truncation |-> gargs.truncation,
     truncation_latent |-> mean_latent]

(* Lines 26, 39, 51: the name of the file, by its variable parts. *)
GSave(conditional, label) ==
    [conditional |-> conditional, label |-> label,
     index |-> zfill(str(gi), CkptWidth)]

(* The classes the sweep of lines 18-30 gets through: all of range(0,7),   *)
(* or those before the first one one_hot rejects.                          *)
Swept == 0..(Min(SweepClasses, gargs.num_classes) - 1)

SweepCalls == [k \in 1..Cardinality(Swept) |-> GCall(k - 1)]

SweepSaves == [k \in 1..Cardinality(Swept) |-> GSave(TRUE, k - 1)]

GenInit ==
    /\ gen_pc = "main"
    /\ gargs \in [pics : 0..MaxPics, conditional : BOOLEAN,
                  label : {AllLabels} \cup LabelsGiven,
                  num_classes : NumClasses, truncation : Truncations]
    /\ gi = 0
    /\ mean_latent = None
    /\ mean_calls = 0
    /\ calls = <<>>
    /\ saves = <<>>

GenIdle ==
    /\ gen_pc = "idle"
    /\ gargs = [pics |-> 0, conditional |-> FALSE, label |-> AllLabels,
                num_classes |-> SweepClasses, truncation |-> One]
    /\ gi = 0
    /\ mean_latent = None
    /\ mean_calls = 0
    /\ calls = <<>>
    /\ saves = <<>>

(* Lines 151-153: the mean latent is computed. *)
MainMean ==
    /\ gen_pc = "main"
    /\ NeedsMean
    /\ mean_latent' \in MeanLatents
    /\ mean_calls' = mean_calls + 1
    /\ gen_pc' = "loop"
    /\ UNCHANGED <<gargs, gi, calls, saves>>
    /\ UNCHANGED notGen

(* Lines 154-155: mean_latent = None. *)
MainNoMean ==
    /\ gen_pc = "main"
    /\ ~NeedsMean
    /\ mean_latent' = None
    /\ gen_pc' = "loop"
    /\ UNCHANGED <<gargs, gi, mean_calls, calls, saves>>
    /\ UNCHANGED notGen

(* Lines 16-30 with every class of the sweep accepted by one_hot. *)
GenSweep ==
    /\ gen_pc = "loop"
    /\ gi < gargs.pics
    /\ gargs.conditional
    /\ gargs.label = AllLabels
    /\ \A label \in 0..(SweepClasses - 1) : OneHotOk(label, gargs.num_classes)
    /\ calls' = calls \o SweepCalls
    /\ saves' = saves \o SweepSaves
    /\ gi' = gi + 1
    /\ UNCHANGED <<gen_pc, gargs, mean_latent, mean_calls>>
    /\ UNCHANGED notGen

(* Lines 16-30 when one_hot rejects a class of the sweep: the classes      *)
(* before it are generated and saved, then RuntimeError ends the run.      *)
GenSweepRaises ==
    /\ gen_pc = "loop"
    /\ gi < gargs.pics
    /\ gargs.conditional
    /\ gargs.label = AllLabels
    /\ \E label \in 0..(SweepClasses - 1) : ~OneHotOk(label, gargs.num_classes)
    /\ calls' = calls \o SweepCalls
    /\ saves' = saves \o SweepSaves
    /\ gen_pc' = "RuntimeError"
    /\ UNCHANGED <<gargs, gi, mean_latent, mean_calls>>
    /\ UNCHANGED notGen

(* Lines 31-43: the class given with --label. *)
GenClass ==
    /\ gen_pc = "loop"
    /\ gi < gargs.pics
    /\ gargs.conditional
    /\ gargs.label # AllLabels
    /\ OneHotOk(gargs.label, gargs.num_classes)
    /\ calls' = Append(calls, GCall(gargs.label))
    /\ saves' = Append(saves, GSave(TRUE, gargs.label))
    /\ gi' = gi + 1
    /\ UNCHANGED <<gen_pc, gargs, mean_latent, mean_calls>>
    /\ UNCHANGED notGen

(* Lines 44-55: no class. *)
GenPlain ==
    /\ gen_pc = "loop"
    /\ gi < gargs.pics
    /\ ~gargs.conditional
    /\ calls' = Append(calls, GCall(AllLabels))
    /\ saves' = Append(saves, GSave(FALSE, AllLabels))
    /\ gi' = gi + 1
    /\ UNCHANGED <<gen_pc, gargs, mean_latent, mean_calls>>
    /\ UNCHANGED notGen

(* Line 12: range(args.pics) is exhausted. *)
GenDone ==
    /\ gen_pc = "loop"
    /\ gi >= gargs.pics
    /\ gen_pc' = "done"
    /\ UNCHANGED <<gargs, gi, mean_latent, mean_calls, calls, saves>>
    /\ UNCHANGED notGen

-----------------------------------------------------------------------------
(* prepare_data.py: prepare(), lines 61-83.  File names are numbers; lmdb  *)
(* keys and values are sequences of characters.                            *)

MaxImages == 3      \* len(dataset.imgs) ranges over 0..MaxImages

(* str(i).zfill(5) in the key. *)
KeyWidth == 5

PrepLabels == {0, 1}

SizesSet == {<<128>>, <<128, 256>>, <<128, 128>>}

Workers == {1, 2}

(* dataset.imgs: distinct files, in any order, each with a label. *)
ImgLists(n) ==
    {[k \in 1..n |-> [file |-> order[k], label |-> lab[k]]] :
        order \in Perms(n), lab \in [1..n -> PrepLabels]}

(* sorted(dataset.imgs, key=lambda x: x[0]): insertion by file name. *)
RECURSIVE InsertByFile(_, _)
InsertByFile(x, sorted) ==
    IF sorted = <<>> THEN <<x>>
    ELSE IF x.file < Head(sorted).file THEN <<x>> \o sorted
    ELSE <<Head(sorted)>> \o InsertByFile(x, Tail(sorted))

RECURSIVE SortByFile(_)
SortByFile(list) ==
    IF list = <<>> THEN <<>>
    ELSE InsertByFile(Head(list), SortByFile(Tail(list)))

(* Line 75: f"{size}-{str(i).zfill(5)}-{labels[i]}". *)
KeyNoIndex(size, index, label) == str(size) \o <<"-">> \o str(label)

Key(size, index, label) ==
    str(size) \o <<"-">> \o zfill(str(index), KeyWidth) \o <<"-">> \o str(label)

LengthKey == <<"l", "e", "n", "g", "t", "h">>

(* txn.put(key, value): the value of an existing key is replaced. *)
Put(db, key, value) ==
    {e \in db : e.key # key} \cup {[key |-> key, val |-> value]}

(* resize_and_convert: the JPEG bytes of a file resized to a size, as     *)
(* characters that tell the file and the size.                            *)
resize_and_convert(img_file, size) ==
    <<"j", "p", "g">> \o str(img_file) \o <<"@">> \o str(size)

(* resize_multiple: one image per entry of sizes, in the order of sizes. *)
resize_multiple(img_file, szs) ==
    [k \in 1..Len(szs) |-> resize_and_convert(img_file, szs[k])]

(* Lines 74-78: for size, img in zip(sizes, imgs): txn.put(key, img). *)
RECURSIVE PutAll(_, _, _, _, _)
PutAll(db, index, label, szs, resized) ==
    IF szs = <<>> \/ resized = <<>> THEN db
    ELSE PutAll(Put(db, Key(Head(szs), index, label), Head(resized)),
                index, label, Tail(szs), Tail(resized))

PrepInit ==
    /\ prep_pc = "start"
    /\ \E n \in 0..MaxImages : imgs \in ImgLists(n)
    /\ sizes \in SizesSet
    /\ n_worker \in Workers
    /\ files = <<>>
    /\ labels = <<>>
    /\ tasks = <<>>
    /\ working = {}
    /\ results = {}
    /\ delivered = <<>>
    /\ total = 0
    /\ store = {}

PrepIdle ==
    /\ prep_pc = "idle"
    /\ imgs = <<>>
    /\ sizes = <<128>>
    /\ n_worker = 1
    /\ files = <<>>
    /\ labels = <<>>
    /\ tasks = <<>>
    /\ working = {}
    /\ results = {}
    /\ delivered = <<>>
    /\ total = 0
    /\ store = {}

(* Lines 64-72: the files sorted and numbered from 0, the labels by        *)
(* index, total = 0, and the pool is given the numbered files.             *)
PrepStart ==
    /\ prep_pc = "start"
    /\ LET sorted == SortByFile(imgs)
       IN  /\ files' = [k \in 1..Len(sorted) |-> sorted[k].file]
           /\ labels' = [k \in 1..Len(sorted) |-> sorted[k].label]
           /\ tasks' = [k \in 1..Len(sorted) |-> k - 1]
    /\ total' = 0
    /\ prep_pc' = "pool"
    /\ UNCHANGED <<imgs, sizes, n_worker, working, results, delivered, store>>
    /\ UNCHANGED notPrep

(* A free worker of the pool takes the next numbered file. *)
WorkerTake ==
    /\ prep_pc = "pool"
    /\ tasks # <<>>
    /\ Cardinality(working) < n_worker
    /\ working' = working \cup {Head(tasks)}
    /\ tasks' = Tail(tasks)
    /\ UNCHANGED <<prep_pc, imgs, sizes, n_worker, files, labels, results,
                   delivered, total, store>>
    /\ UNCHANGED notPrep

(* Lines 52-58: resize_worker returns (i, out). *)
WorkerReturn ==
    /\ prep_pc = "pool"
    /\ \E index \in working :
          /\ working' = working \ {index}
          /\ results' = results \cup
                {[i |-> index, out |-> resize_multiple(files[index + 1], sizes)]}
    /\ UNCHANGED <<prep_pc, imgs, sizes, n_worker, files, labels, tasks,
                   delivered, total, store>>
    /\ UNCHANGED notPrep

(* Lines 73-80: imap_unordered hands the loop any finished result; its     *)
(* images are put under their keys and total grows by one.                 *)
Deliver ==
    /\ prep_pc = "pool"
    /\ \E r \in results :
          /\ results' = results \ {r}
          /\ store' = PutAll(store, r.i, labels[r.i + 1], sizes, r.out)
          /\ delivered' = Append(delivered, r.i)
    /\ total' = total + 1
    /\ UNCHANGED <<prep_pc, imgs, sizes, n_worker, files, labels, tasks, working>>
    /\ UNCHANGED notPrep

(* Lines 82-83: after the loop, txn.put("length", str(total)). *)
PutLength ==
    /\ prep_pc = "pool"
    /\ tasks = <<>>
    /\ working = {}
    /\ results = {}
    /\ store' = Put(store, LengthKey, str(total))
    /\ prep_pc' = "done"
    /\ UNCHANGED <<imgs, sizes, n_worker, files, labels, tasks, working, results,
                   delivered, total>>
    /\ UNCHANGED notPrep

-----------------------------------------------------------------------------
(* train() in the processes of a distributed run (SpecDist).               *)
(*                                                                         *)
(* __main__ starts one process per GPU with the same command line (lines   *)
(* 566-578); each runs train() on its own. generator and discriminator are *)
(* DistributedDataParallel modules (lines 627-631), whose backward() is an *)
(* all-reduce of the gradients. reduce_sum and reduce_loss_dict come from  *)
(* the module distributed (line 32), which has no source here: they follow *)
(* the description of the coordination adapter, whose collective calls     *)
(* block until all processes arrive.                                       *)

Procs == {0, 1, 2}

DistArgs ==
    [iter : 0..MaxIter, start_iter : {0, 1},
     d_reg_every : 1..MaxReg, g_reg_every : 1..MaxReg]

(* Line 259 with a start_iter that differs from process to process. *)
IterOfShifted(proc, n) == n + dist_args.start_iter + proc

(* Line 259: i = idx + args.start_iter, the same args in every process. *)
IterOf(proc, n) == n + dist_args.start_iter

Call(op, what, n) == [op |-> op, what |-> what, i |-> n]

(* loss.backward() through a DistributedDataParallel module. *)
backward(loss, n) == Call("all_reduce", loss, n)

(* distributed.reduce_sum(tensor). *)
reduce_sum(tensor, n) == Call("reduce_sum", tensor, n)

(* distributed.reduce_loss_dict(loss_dict). *)
reduce_loss_dict(n) == Call("reduce_loss_dict", "loss_dict", n)

(* A process enters a collective call. *)
Enter(proc, c) ==
    /\ issued' = [issued EXCEPT ![proc] = Append(@, c)]
    /\ in_call' = [in_call EXCEPT ![proc] = TRUE]

DistInit ==
    /\ dist_args \in DistArgs
    /\ dist_wandb \in {"imported", "missing"}
    /\ rank_pc = [q \in Procs |-> "for"]
    /\ rank_idx = [q \in Procs |-> 0]
    /\ rank_i = [q \in Procs |-> 0 - 1]
    /\ in_call = [q \in Procs |-> FALSE]
    /\ issued = [q \in Procs |-> <<>>]

DistIdle ==
    /\ dist_args = [iter |-> 0, start_iter |-> 0, d_reg_every |-> 1,
                    g_reg_every |-> 1]
    /\ dist_wandb = "missing"
    /\ rank_pc = [q \in Procs |-> "idle"]
    /\ rank_idx = [q \in Procs |-> 0]
    /\ rank_i = [q \in Procs |-> 0 - 1]
    /\ in_call = [q \in Procs |-> FALSE]
    /\ issued = [q \in Procs |-> <<>>]

(* Lines 258-263: range(args.iter) is exhausted, or the break. *)
RankLoopEnd(proc) ==
    /\ rank_pc[proc] = "for"
    /\ ~in_call[proc]
    /\ \/ rank_idx[proc] >= dist_args.iter
       \/ IterOf(proc, rank_idx[proc]) > dist_args.iter
    /\ rank_pc' = [rank_pc EXCEPT ![proc] = "done"]
    /\ UNCHANGED <<dist_args, dist_wandb, rank_idx, rank_i, in_call, issued>>
    /\ UNCHANGED notDist

(* Lines 258-265: the next iteration starts. *)
RankLoopEnter(proc) ==
    /\ rank_pc[proc] = "for"
    /\ ~in_call[proc]
    /\ rank_idx[proc] < dist_args.iter
    /\ IterOf(proc, rank_idx[proc]) <= dist_args.iter
    /\ rank_i' = [rank_i EXCEPT ![proc] = IterOf(proc, rank_idx[proc])]
    /\ rank_idx' = [rank_idx EXCEPT ![proc] = @ + 1]
    /\ rank_pc' = [rank_pc EXCEPT ![proc] = "d_step"]
    /\ UNCHANGED <<dist_args, dist_wandb, in_call, issued>>
    /\ UNCHANGED notDist

(* Lines 266-347: d_loss.backward() and d_optim.step(). *)
RankDStep(proc) ==
    /\ rank_pc[proc] = "d_step"
    /\ ~in_call[proc]
    /\ Enter(proc, backward("d_loss", rank_i[proc]))
    /\ rank_pc' = [rank_pc EXCEPT ![proc] = "r1"]
    /\ UNCHANGED <<dist_args, dist_wandb, rank_idx, rank_i>>
    /\ UNCHANGED notDist

(* Lines 353-372: the R1 pass, when i % args.d_reg_every == 0. *)
RankR1(proc) ==
    /\ rank_pc[proc] = "r1"
    /\ ~in_call[proc]
    /\ IF rank_i[proc] % dist_args.d_reg_every = 0
         THEN Enter(proc, backward("r1_loss", rank_i[proc]))
         ELSE UNCHANGED <<in_call, issued>>
    /\ rank_pc' = [rank_pc EXCEPT ![proc] = "g_step"]
    /\ UNCHANGED <<dist_args, dist_wandb, rank_idx, rank_i>>
    /\ UNCHANGED notDist

(* Lines 374-435: g_loss.backward() and g_optim.step(). *)
RankGStep(proc) ==
    /\ rank_pc[proc] = "g_step"
    /\ ~in_call[proc]
    /\ Enter(proc, backward("g_loss", rank_i[proc]))
    /\ rank_pc' = [rank_pc EXCEPT ![proc] = "path"]
    /\ UNCHANGED <<dist_args, dist_wandb, rank_idx, rank_i>>
    /\ UNCHANGED notDist

(* Lines 437-454: weighted_path_loss.backward() and g_optim.step(), when   *)
(* i % args.g_reg_every == 0.                                              *)
RankPath(proc) ==
    /\ rank_pc[proc] = "path"
    /\ ~in_call[proc]
    /\ rank_i[proc] % dist_args.g_reg_every = 0
    /\ Enter(proc, backward("weighted_path_loss", rank_i[proc]))
    /\ rank_pc' = [rank_pc EXCEPT ![proc] = "reduce_sum"]
    /\ UNCHANGED <<dist_args, dist_wandb, rank_idx, rank_i>>
    /\ UNCHANGED notDist

RankPathSkip(proc) ==
    /\ rank_pc[proc] = "path"
    /\ ~in_call[proc]
    /\ rank_i[proc] % dist_args.g_reg_every # 0
    /\ rank_pc' = [rank_pc EXCEPT ![proc] = "reduce"]
    /\ UNCHANGED <<dist_args, dist_wandb, rank_idx, rank_i, in_call, issued>>
    /\ UNCHANGED notDist

(* Line 456: reduce_sum(mean_path_length), inside if g_regularize. *)
RankReduceSum(proc) ==
    /\ rank_pc[proc] = "reduce_sum"
    /\ ~in_call[proc]
    /\ Enter(proc, reduce_sum("mean_path_length", rank_i[proc]))
    /\ rank_pc' = [rank_pc EXCEPT ![proc] = "reduce"]
    /\ UNCHANGED <<dist_args, dist_wandb, rank_idx, rank_i>>
    /\ UNCHANGED notDist

(* Lines 458-463: accumulate, then loss_reduced = reduce_loss_dict(...). *)
RankReduce(proc) ==
    /\ rank_pc[proc] = "reduce"
    /\ ~in_call[proc]
    /\ Enter(proc, reduce_loss_dict(rank_i[proc]))
    /\ rank_pc' = [rank_pc EXCEPT ![proc] = "rank0"]
    /\ UNCHANGED <<dist_args, dist_wandb, rank_idx, rank_i>>
    /\ UNCHANGED notDist

(* Line 475: if get_rank() == 0 is false. *)
RankZeroSkip(proc) ==
    /\ rank_pc[proc] = "rank0"
    /\ ~in_call[proc]
    /\ proc # 0
    /\ rank_pc' = [rank_pc EXCEPT ![proc] = "for"]
    /\ UNCHANGED <<dist_args, dist_wandb, rank_idx, rank_i, in_call, issued>>
    /\ UNCHANGED notDist

(* Lines 475-514 in process 0: set_description, wandb.log, save_image,     *)
(* send_telegram_picture, torch.save; none of them is a collective call.   *)
RankZeroBlock(proc) ==
    /\ rank_pc[proc] = "rank0"
    /\ ~in_call[proc]
    /\ proc = 0
    /\ ~(rank_i[proc] % CkptEvery = 0 /\ dist_wandb = "missing")
    /\ rank_pc' = [rank_pc EXCEPT ![proc] = "for"]
    /\ UNCHANGED <<dist_args, dist_wandb, rank_idx, rank_i, in_call, issued>>
    /\ UNCHANGED notDist

(* Lines 485-514 in process 0: an exception of the sample or checkpoint    *)
(* branch (send_telegram_picture; wandb.run with wandb = None) ends it.    *)
RankZeroRaises(proc) ==
    /\ rank_pc[proc] = "rank0"
    /\ ~in_call[proc]
    /\ proc = 0
    /\ rank_i[proc] % SampleEvery = 0
    /\ rank_pc' = [rank_pc EXCEPT ![proc] = "raised"]
    /\ UNCHANGED <<dist_args, dist_wandb, rank_idx, rank_i, in_call, issued>>
    /\ UNCHANGED notDist

(* A collective call returns once every process has entered the same call. *)
Return(proc) ==
    /\ in_call[proc]
    /\ LET k == Len(issued[proc])
       IN  \A q \in Procs :
              /\ Len(issued[q]) >= k
              /\ issued[q][k].op = issued[proc][k].op
    /\ in_call' = [in_call EXCEPT ![proc] = FALSE]
    /\ UNCHANGED <<dist_args, dist_wandb, rank_pc, rank_idx, rank_i, issued>>
    /\ UNCHANGED notDist

-----------------------------------------------------------------------------
(* One iteration of train(), lines 266-435, run twice from the same        *)
(* parameters, optimizer state and random draws with two centroid          *)
(* settings (SpecPair).  A tensor element is a dual number: its value v    *)
(* and its derivatives dg, dd with respect to the generator's and the      *)
(* discriminator's parameter, which is what backward() leaves in .grad.    *)

Runs == {1, 2}

Dual(x, dg, dd) == [v |-> x, dg |-> dg, dd |-> dd]

(* fake_img, _ = generator(noise), lines 275 and 382: a network with one  *)
(* parameter w; the image carries a graph only when w requires gradients.  *)
generator(z, w, trainable) == Dual(z + w, IF trainable THEN 1 ELSE 0, 0)

(* discriminator(img), lines 325-326 and 428, likewise. *)
discriminator(img, w, trainable) ==
    Dual(w * img.v, w * img.dg, IF trainable THEN img.v ELSE 0)

(* Lines 281-283 and 385-387: the distance of each fake image to its       *)
(* nearest centroid and that centroid's index.  The distance is a          *)
(* differentiable function of the image: near[k].slope is its derivative.  *)
NearestCentroid(fakes, near) ==
    [k \in 1..Len(fakes) |->
        [val |-> Dual(near[k].v, near[k].slope * fakes[k].dg, 0),
         index |-> near[k].index]]

(* val.item(): a Python float. *)
item(t) == t.v

(* Lines 389-404: the chain of "if index == c" over zip(distances,         *)
(* indices); lines 290-312 build scaled_data in the same way.              *)
RECURSIVE ScaleFakes(_, _)
ScaleFakes(pairs, acc) ==
    IF pairs = <<>> THEN acc
    ELSE LET s == Head(pairs)
         IN  IF s.index \in 0..(NumScalers - 1)
             THEN ScaleFakes(Tail(pairs),
                    Append(acc, transform(robustscalers[s.index], item(s.val))))
             ELSE ScaleFakes(Tail(pairs), acc)

(* torch.tensor(list), lines 315 and 407: a new leaf without a graph. *)
tensor(list) == [k \in 1..Len(list) |-> Dual(list[k], 0, 0)]

(* Handing the raw distances to the loss. *)
CentroidArgRaw(scaled, raw) == raw

(* Lines 330 and 429: the loss gets scaled_data, not                       *)
(* centroid_distances_torch.                                               *)
CentroidArg(scaled, raw) == scaled

(* The derivative of F.softplus, the logistic function, in fixed point. *)
SigmoidTable ==
    <<0, 1, 2, 7, 18, 47, 119, 269, 500,
      731, 881, 953, 982, 993, 998, 999, One>>

sigmoid(x) ==
    IF x > 8 THEN One
    ELSE IF x < 0 - 8 THEN 0
    ELSE SigmoidTable[x + 9]

SoftplusT(t) ==
    [k \in 1..Len(t) |->
        Dual(softplus(t[k].v), sigmoid(t[k].v) * t[k].dg,
             sigmoid(t[k].v) * t[k].dd)]

NegT(t) == [k \in 1..Len(t) |-> Dual(0 - t[k].v, 0 - t[k].dg, 0 - t[k].dd)]

(* tensor.mean() with its backward: an empty tensor gives nan and passes   *)
(* no gradient.                                                            *)
MeanT(t) ==
    IF Len(t) = 0 THEN Dual(NaN, 0, 0)
    ELSE Dual(Num(SumSeq([k \in 1..Len(t) |-> t[k].v]) \div Len(t)),
              SumSeq([k \in 1..Len(t) |-> t[k].dg]) \div Len(t),
              SumSeq([k \in 1..Len(t) |-> t[k].dd]) \div Len(t))

AddT(a, b) == Dual(FAdd(a.v, b.v), a.dg + b.dg, a.dd + b.dd)

(* d_logistic_loss, lines 109-116, with the graph of its result;           *)
(* centroid_distances is <<>> for None and <<tensor>> otherwise.           *)
d_logistic_loss_graph(real_pred, fake_pred, centroid_distances) ==
    LET real_loss == SoftplusT(NegT(real_pred))
        fake_loss == SoftplusT(fake_pred)
    IN  IF centroid_distances # <<>>
        THEN AddT(AddT(MeanT(real_loss), MeanT(fake_loss)),
                  MeanT(SoftplusT(centroid_distances[1])))
        ELSE AddT(MeanT(real_loss), MeanT(fake_loss))

(* g_nonsaturating_loss, lines 127-133. *)
g_nonsaturating_loss(fake_pred, centroid_distances) ==
    IF centroid_distances # <<>>
    THEN AddT(MeanT(SoftplusT(NegT(fake_pred))),
              MeanT(SoftplusT(centroid_distances[1])))
    ELSE MeanT(SoftplusT(NegT(fake_pred)))

Sgn(x) == IF x > 0 THEN 1 ELSE IF x < 0 THEN 0 - 1 ELSE 0

(* optim.Adam.step() (lines 603-606) from a given optimizer state: a       *)
(* function of the parameter and its gradient; here one unit against the   *)
(* sign of the gradient.                                                   *)
AdamStep(w, g) == w - Sgn(g)

(* What torch.min sees for one fake image: distance, slope, index. *)
NearSet ==
    {[v |-> 3, slope |-> 1, index |-> 0],
     [v |-> 8, slope |-> 0 - 2, index |-> NumScalers - 1],
     [v |-> 5, slope |-> 1, index |-> NumScalers]}

(* args.centroids given or not (line 280), and the centroids' effect. *)
PairCfgs ==
    [on : {TRUE}, near : [1..MaxBatch -> NearSet]]
    \cup {[on |-> FALSE,
           near |-> [k \in 1..MaxBatch |-> [v |-> 0, slope |-> 0, index |-> 0]]]}

PairDraws ==
    [z : [1..MaxBatch -> {0, 1}], real : {1}, w_gen : {0, 1}, w_disc : {1, 2}]

PairInit ==
    /\ pair_draw \in PairDraws
    /\ pair_cfg \in [Runs -> PairCfgs]
    /\ pair_pc = [run \in Runs |-> "d_phase"]
    /\ pair_gen = [run \in Runs |-> pair_draw.w_gen]
    /\ pair_disc = [run \in Runs |-> pair_draw.w_disc]
    /\ pair_grads = [run \in Runs |-> [d |-> 0, g |-> 0]]
    /\ pair_losses = [run \in Runs |-> [d |-> Num(0), g |-> Num(0)]]

PairIdle ==
    /\ pair_draw = [z |-> <<>>, real |-> 0, w_gen |-> 0, w_disc |-> 0]
    /\ pair_cfg = [run \in Runs |-> [on |-> FALSE, near |-> <<>>]]
    /\ pair_pc = [run \in Runs |-> "idle"]
    /\ pair_gen = [run \in Runs |-> 0]
    /\ pair_disc = [run \in Runs |-> 0]
    /\ pair_grads = [run \in Runs |-> [d |-> 0, g |-> 0]]
    /\ pair_losses = [run \in Runs |-> [d |-> Num(0), g |-> Num(0)]]

(* Lines 266-347: the discriminator's phase of a run. *)
PairDPhase(run) ==
    /\ pair_pc[run] = "d_phase"
    /\ LET flags == DPhaseFlags(ModuleDefault)
           fakes == [k \in 1..MaxBatch |->
                       generator(pair_draw.z[k], pair_gen[run], flags.generator)]
           reals == [k \in 1..MaxBatch |-> Dual(pair_draw.real + k - 1, 0, 0)]
           near == NearestCentroid(fakes, pair_cfg[run].near)
           scaled == tensor(ScaleFakes(near, <<>>))
           centroid_distances ==
               IF pair_cfg[run].on
               THEN <<CentroidArg(scaled, [k \in 1..Len(near) |-> near[k].val])>>
               ELSE <<>>
           fake_pred == [k \in 1..MaxBatch |->
               discriminator(fakes[k], pair_disc[run], flags.discriminator)]
           real_pred == [k \in 1..MaxBatch |->
               discriminator(reals[k], pair_disc[run], flags.discriminator)]
           loss == d_logistic_loss_graph(real_pred, fake_pred, centroid_distances)
       IN  /\ pair_losses' = [pair_losses EXCEPT ![run].d = loss.v]
           /\ pair_grads' = [pair_grads EXCEPT ![run].d = loss.dd]
           /\ pair_disc' = [pair_disc EXCEPT ![run] = AdamStep(@, loss.dd)]
    /\ pair_pc' = [pair_pc EXCEPT ![run] = "g_phase"]
    /\ UNCHANGED <<pair_draw, pair_cfg, pair_gen>>
    /\ UNCHANGED notPair

(* Lines 374-435: the generator's phase of a run. *)
PairGPhase(run) ==
    /\ pair_pc[run] = "g_phase"
    /\ LET flags == GPhaseFlags(DPhaseFlags(ModuleDefault))
           fakes == [k \in 1..MaxBatch |->
                       generator(pair_draw.z[k], pair_gen[run], flags.generator)]
           near == NearestCentroid(fakes, pair_cfg[run].near)
           scaled == tensor(ScaleFakes(near, <<>>))
           centroid_distances ==
               IF pair_cfg[run].on
               THEN <<CentroidArg(scaled, [k \in 1..Len(near) |-> near[k].val])>>
               ELSE <<>>
           fake_pred == [k \in 1..MaxBatch |->
               discriminator(fakes[k], pair_disc[run], flags.discriminator)]
           loss == g_nonsaturating_loss(fake_pred, centroid_distances)
       IN  /\ pair_losses' = [pair_losses EXCEPT ![run].g = loss.v]
           /\ pair_grads' = [pair_grads EXCEPT ![run].g = loss.dg]
           /\ pair_gen' = [pair_gen EXCEPT ![run] = AdamStep(@, loss.dg)]
    /\ pair_pc' = [pair_pc EXCEPT ![run] = "done"]
    /\ UNCHANGED <<pair_draw, pair_cfg, pair_disc>>
    /\ UNCHANGED notPair

-----------------------------------------------------------------------------
(* The specifications. *)

Init == TrainInit /\ AccIdle /\ DIdle /\ CkptIdle /\ DataIdle /\ MixIdle
        /\ GenIdle /\ PrepIdle
        /\ DistIdle
        /\ PairIdle

Next == TrainNext

Spec == Init /\ [][Next]_vars

(* The loop body holds no blocking call of its own: every step that is     *)
(* enabled is eventually taken.                                            *)
FairSpec == Spec /\ WF_vars(Next)

InitAcc == AccInit /\ TrainIdle /\ DIdle /\ CkptIdle /\ DataIdle /\ MixIdle
        /\ GenIdle /\ PrepIdle
        /\ DistIdle
        /\ PairIdle

NextAcc == AccCall

SpecAcc == InitAcc /\ [][NextAcc]_vars

InitD == DInit /\ TrainIdle /\ AccIdle /\ CkptIdle /\ DataIdle /\ MixIdle
        /\ GenIdle /\ PrepIdle
        /\ DistIdle
        /\ PairIdle

NextD == Normalize \/ NormalizeSkip \/ DLoss

SpecD == InitD /\ [][NextD]_vars

InitCkpt == CkptInit /\ TrainIdle /\ AccIdle /\ DIdle /\ DataIdle /\ MixIdle
        /\ GenIdle /\ PrepIdle
        /\ DistIdle
        /\ PairIdle

NextCkpt == SaveCkpt \/ LoadCkpt

SpecCkpt == InitCkpt /\ [][NextCkpt]_vars

InitData == DataInit /\ TrainIdle /\ AccIdle /\ DIdle /\ CkptIdle /\ MixIdle
        /\ GenIdle /\ PrepIdle
        /\ DistIdle
        /\ PairIdle

NextData == RequestNext \/ StartPass \/ Yield \/ PassOver

(* The generator keeps running while it has a step to take. *)
SpecData == InitData /\ [][NextData]_vars /\ WF_vars(NextData)

InitMix ==
    MixInit /\ TrainIdle /\ AccIdle /\ DIdle /\ CkptIdle /\ DataIdle
        /\ GenIdle /\ PrepIdle
        /\ DistIdle
        /\ PairIdle

NextMix == MixCall

SpecMix == InitMix /\ [][NextMix]_vars

InitGen ==
    GenInit /\ TrainIdle /\ AccIdle /\ DIdle /\ CkptIdle /\ DataIdle
        /\ MixIdle /\ PrepIdle
        /\ DistIdle
        /\ PairIdle

NextGen ==
    \/ MainMean \/ MainNoMean
    \/ GenSweep \/ GenSweepRaises \/ GenClass \/ GenPlain \/ GenDone

SpecGen == InitGen /\ [][NextGen]_vars

InitPrep ==
    PrepInit /\ TrainIdle /\ AccIdle /\ DIdle /\ CkptIdle /\ DataIdle
        /\ MixIdle /\ GenIdle
        /\ DistIdle
        /\ PairIdle

NextPrep == PrepStart \/ WorkerTake \/ WorkerReturn \/ Deliver \/ PutLength

SpecPrep == InitPrep /\ [][NextPrep]_vars

InitDist ==
    DistInit /\ TrainIdle /\ AccIdle /\ DIdle /\ CkptIdle /\ DataIdle
        /\ MixIdle /\ GenIdle /\ PrepIdle
        /\ PairIdle

NextDist ==
    \E proc \in Procs :
        \/ RankLoopEnd(proc)
        \/ RankLoopEnter(proc)
        \/ RankDStep(proc)
        \/ RankR1(proc)
        \/ RankGStep(proc)
        \/ RankPath(proc)
        \/ RankPathSkip(proc)
        \/ RankReduceSum(proc)
        \/ RankReduce(proc)
        \/ RankZeroSkip(proc)
        \/ RankZeroBlock(proc)
        \/ RankZeroRaises(proc)
        \/ Return(proc)

(* Every process keeps running: each is an operating-system process of its *)
(* own, and the run has finitely many steps.                               *)
SpecDist == InitDist /\ [][NextDist]_vars /\ WF_vars(NextDist)

InitPair ==
    PairInit /\ TrainIdle /\ AccIdle /\ DIdle /\ CkptIdle /\ DataIdle
        /\ MixIdle /\ GenIdle /\ PrepIdle /\ DistIdle

NextPair == \E run \in Runs : PairDPhase(run) \/ PairGPhase(run)

SpecPair == InitPair /\ [][NextPair]_vars

-----------------------------------------------------------------------------
(* Properties of the iteration loop (Spec, FairSpec).                      *)

Before(a, b) == 0 < Pos(steps, a) /\ Pos(steps, a) < Pos(steps, b)

Once(x) == Cardinality({k \in 1..Len(steps) : steps[k] = x}) <= 1

InIteration == pc \in {"d_step", "tune", "r1", "g_step", "path", "ema", "reduce", "side"}

(* C1: within an iteration the discriminator step precedes the generator   *)
(* step, the R1 pass follows the discriminator step, the path-length pass  *)
(* follows the generator step, and accumulate follows every generator      *)
(* optimizer step of the iteration and precedes reduce_loss_dict.          *)
C1_StepOrder ==
    /\ \A x \in {"d_step", "r1", "g_step", "path", "ema", "reduce"} : Once(x)
    /\ Has(steps, "g_step") => Before("d_step", "g_step")
    /\ Has(steps, "r1") => Before("d_step", "r1")
    /\ Has(steps, "path") => Before("g_step", "path")
    /\ Has(steps, "ema") =>
          /\ Before("g_step", "ema")
          /\ Has(steps, "path") => Before("path", "ema")
          /\ counts.g = Cardinality({k \in 1..Pos(steps, "ema") :
                                        steps[k] \in {"g_step", "path"}})
    /\ Has(steps, "reduce") => Before("ema", "reduce")
    /\ pc = "side" =>
          /\ Has(steps, "d_step") /\ Has(steps, "g_step")
          /\ Has(steps, "ema") /\ Has(steps, "reduce")

C1_Witness ==
    /\ pc = "side"
    /\ steps = <<"d_step", "r1", "g_step", "path", "ema", "reduce">>

(* C7: g_ema changes only in the EMA update, which runs once per           *)
(* iteration; no optimizer step, pass or sampling step writes it.          *)
C7_EmaOnlyAccumulate ==
    /\ steps = <<>> => g_ema = snap.g_ema /\ counts.acc = 0
    /\ InIteration /\ pc \notin {"reduce", "side"} =>
          g_ema = snap.g_ema /\ counts.acc = 0
    /\ \/ pc \in {"reduce", "side", "sample", "ckpt", "aborted"}
       \/ pc \in {"for", "done"} /\ steps # <<>>
       =>
          /\ counts.acc = 1
          /\ g_ema = accumulate(1 :> snap.g_ema, 1 :> gen, accum).par1[1]

C7_Witness ==
    /\ pc = "side"
    /\ counts.g = 2
    /\ g_ema # snap.g_ema
    /\ g_ema # gen

(* C8: the R1 pass runs exactly when i % d_reg_every = 0 and the           *)
(* path-length pass exactly when i % g_reg_every = 0; otherwise the        *)
(* optimizer steps once and r1_loss, path_loss, mean_path_length keep      *)
(* the values they had at the top of the iteration.                        *)
C8_RegularizeEvery ==
    pc \in {"ema", "reduce", "side"} =>
      /\ Has(steps, "r1") <=> (i % args.d_reg_every = 0)
      /\ Has(steps, "path") <=> (i % args.g_reg_every = 0)
      /\ counts.d = IF i % args.d_reg_every = 0 THEN 2 ELSE 1
      /\ counts.g = IF i % args.g_reg_every = 0 THEN 2 ELSE 1
      /\ i % args.d_reg_every # 0 => r1_loss = snap.r1_loss
      /\ i % args.g_reg_every # 0 =>
            /\ path_loss = snap.path_loss
            /\ mean_path_length = snap.mean_path_length

C8_Witness ==
    /\ pc = "side"
    /\ i % args.d_reg_every # 0
    /\ i % args.g_reg_every = 0
    /\ counts.d = 1
    /\ counts.g = 2
    /\ snap.r1_loss # 0
    /\ r1_loss = snap.r1_loss
    /\ path_loss # snap.path_loss

(* C9 as stated: with adaptive augmentation the strength is tuned after    *)
(* the R1 pass and before the generator step, so the R1 pass augments      *)
(* with the strength the discriminator step used.                          *)
C9_TuneAfterR1 ==
    adaptive /\ Has(steps, "r1") =>
      /\ Has(steps, "tune") => Before("r1", "tune")
      /\ p_used.r1 = p_used.d

(* C9 amended: the strength is tuned right after the discriminator step,   *)
(* before the R1 pass and the generator step; the R1 pass and the          *)
(* generator step augment with the newly tuned strength.                   *)
C9_TuneBeforeR1 ==
    adaptive =>
      /\ Has(steps, "tune") => Before("d_step", "tune")
      /\ Has(steps, "r1") => Before("tune", "r1") /\ p_used.r1 = ada_aug_p
      /\ Has(steps, "g_step") => Before("tune", "g_step") /\ p_used.g = ada_aug_p

C9_Witness ==
    /\ adaptive
    /\ pc = "side"
    /\ Has(steps, "r1")
    /\ p_used.r1 # p_used.d
    /\ p_used.r1 = ada_aug_p

Max(a, b) == IF a > b THEN a ELSE b

Consecutive ==
    \A k \in 1..Len(ran) : ran[k] = args.start_iter + k - 1

Ended ==
    {ran[k] : k \in 1..Len(ran)} \ (IF pc \in {"for", "done", "aborted"}
                                    THEN {} ELSE {i})

CkptsAt(n) == {e \in effects : e.kind = "ckpt" /\ e.i = n}

(* C12: on rank 0, when no telemetry call raises, a checkpoint is written  *)
(* in exactly the iterations with i % 5000 = 0, whatever the state of      *)
(* wandb: a run object exists, wandb.run is None, or the import failed.    *)
C12_CkptEveryInterval ==
    rank = 0 /\ error \notin {"wandb.log", "send_telegram_picture"} =>
        \A n \in Ended : (CkptsAt(n) # {}) <=> (n % CkptEvery = 0)

(* C13: no failure of the telemetry collaborator (wandb missing or         *)
(* uninitialised, wandb.log raising, send_telegram_picture raising) ends   *)
(* the training loop.                                                      *)
C13_TelemetryNeverAborts == pc # "aborted" /\ error = "none"

(* C14: a process whose rank is not 0 logs nothing and writes no sample    *)
(* grid and no checkpoint; whatever is logged or written is rank 0's.      *)
C14_OnlyRankZero ==
    /\ rank # 0 => effects = {} /\ pc \notin {"sample", "ckpt", "aborted"}
    /\ effects # {} => rank = 0

C14_Witness ==
    /\ rank # 0
    /\ pc = "done"
    /\ Len(ran) >= 2
    /\ ran[1] % CkptEvery = 0

StrengthsUsed == {p_used.d, p_used.r1, p_used.g} \ {NoAug}

(* C16 as stated: for every configured augment_p the strength passed to    *)
(* augment lies in [0,1], and a fixed strength (augment_p > 0) never       *)
(* changes.                                                                *)
C16_InUnitInterval ==
    /\ StrengthsUsed \subseteq 0..PLevels
    /\ args.augment_p > 0 =>
          ada_aug_p = args.augment_p /\ StrengthsUsed \subseteq {args.augment_p}

(* C16 amended: for a configured augment_p <= 1 the strength passed to     *)
(* augment lies in [0,1] (0 for a negative augment_p without tuning); a    *)
(* fixed strength (augment_p > 0) never changes, so an augment_p above 1   *)
(* is passed to augment as it is.                                          *)
C16_StrengthRange ==
    /\ args.augment_p <= PLevels =>
          ada_aug_p \in 0..PLevels /\ StrengthsUsed \subseteq 0..PLevels
    /\ args.augment_p < 0 => ada_aug_p = 0 /\ StrengthsUsed \subseteq {0}
    /\ args.augment_p > 0 =>
          ada_aug_p = args.augment_p /\ StrengthsUsed \subseteq {args.augment_p}

C16_Witness ==
    /\ args.augment
    /\ args.augment_p = 1
    /\ Len(ran) = 3
    /\ pc = "side"
    /\ Has(steps, "r1")
    /\ p_used = [d |-> 1, r1 |-> 1, g |-> 1]

-----------------------------------------------------------------------------
(* Properties of accumulate (SpecAcc).                                     *)

(* C5: for a decay in (0,1), after accumulate every parameter of the       *)
(* target is decay * old target + (1 - decay) * source, and the source is  *)
(* unchanged.                                                              *)
C5_EmaFormula ==
    [][(acc_state = "call" /\ acc_state' = "ok" /\ decay \in 1..(One - 1)) =>
         /\ DOMAIN par1' = DOMAIN par1
         /\ \A k \in DOMAIN par1 :
               One * par1'[k] = decay * par1[k] + (One - decay) * par2[k]
         /\ par2' = par2]_vars

C5_Witness ==
    /\ acc_state = "ok"
    /\ decay \in 1..(One - 1)
    /\ \E k \in DOMAIN par1 : par1[k] # par2[k] /\ par1[k] # 0

(* C6 as stated: accumulate fails with KeyError exactly when the two name  *)
(* sets differ.                                                            *)
C6_FailsOnAnyMismatch ==
    acc_state \in {"ok", "KeyError"} =>
      (acc_state = "KeyError" <=> DOMAIN par1 # DOMAIN par2)

(* C6 amended: accumulate fails with KeyError exactly when the target has  *)
(* a name the source lacks; names only the source has are ignored.         *)
C6_FailsOnMissingSource ==
    acc_state \in {"ok", "KeyError"} =>
      (acc_state = "KeyError" <=> ~(DOMAIN par1 \subseteq DOMAIN par2))

C6_Witness ==
    /\ acc_state = "ok"
    /\ DOMAIN par1 # {}
    /\ DOMAIN par1 # DOMAIN par2

-----------------------------------------------------------------------------
(* Properties of the discriminator phase (SpecD).                          *)

InRange(ix) == ix \in 0..(NumScalers - 1)

(* C2: every sample's normalized distance is its own distance through the  *)
(* scaler of its own nearest-centroid index, the real samples included.    *)
C2_OwnScaler ==
    (/\ centroid_on
     /\ dpc \in {"loss", "stepped"}
     /\ \A k \in 1..MaxBatch :
           InRange(batch.samples[k].index) /\ InRange(batch.samples[k].index_reals)) =>
      \A k \in 1..MaxBatch :
        /\ scaled_data[k] =
             transform(robustscalers[batch.samples[k].index], batch.samples[k].val)
        /\ scaled_data_reals[k] =
             transform(robustscalers[batch.samples[k].index_reals],
                       batch.samples[k].val_reals)

(* C3: an index without a scaler never yields a normalized vector shorter  *)
(* than the batch: the phase does not get past the normalization.          *)
C3_NoSilentDrop ==
    centroid_on /\ dpc \in {"loss", "stepped"} =>
      /\ Len(scaled_data) = MaxBatch
      /\ Len(scaled_data_reals) = MaxBatch
      /\ \A k \in 1..MaxBatch : InRange(batch.samples[k].index)

(* C4 as stated: with the centroid term, d_loss holds the softplus means   *)
(* of both the fake and the real normalized distances.                     *)
C4_BothTerms ==
    centroid_on /\ dpc = "stepped" =>
      d_loss = FAdd(FAdd(mean(SoftplusAll(NegAll(RealPred(batch)))),
                         mean(SoftplusAll(FakePred(batch)))),
                    FAdd(mean(SoftplusAll(scaled_data)),
                         mean(SoftplusAll(scaled_data_reals))))

(* C4 amended: with the centroid term, d_loss holds the softplus mean of   *)
(* the fake normalized distances only; that of the real ones is reported   *)
(* as distance_loss_reals and is no summand of d_loss.                     *)
C4_FakeTermOnly ==
    centroid_on /\ dpc = "stepped" =>
      /\ d_loss = FAdd(FAdd(mean(SoftplusAll(NegAll(RealPred(batch)))),
                            mean(SoftplusAll(FakePred(batch)))),
                       mean(SoftplusAll(scaled_data)))
      /\ loss_dict.d = d_loss
      /\ loss_dict.distance_loss = mean(SoftplusAll(scaled_data))
      /\ loss_dict.distance_loss_reals = mean(SoftplusAll(scaled_data_reals))

C4_Witness ==
    /\ centroid_on
    /\ dpc = "stepped"
    /\ ~d_loss.nan
    /\ loss_dict.distance_loss_reals.v > 0
    /\ loss_dict.distance_loss.v > 0

-----------------------------------------------------------------------------
(* Properties of the checkpoint round trip (SpecCkpt).                     *)

(* C11: for every checkpoint file the loop writes at iteration i, under    *)
(* either file name, a run started from it holds the saved state_dicts of  *)
(* g, d, g_ema and both optimizers and has start_iter = i.                 *)
C11_RoundTrip ==
    ckpt_pc = "loaded" =>
        /\ resumed.dicts = live
        /\ resumed.start_iter = save_i

-----------------------------------------------------------------------------
(* Properties of sample_data (SpecData).                                   *)

IsPrefix(a, b) == Len(a) <= Len(b) /\ a = SubSeq(b, 1, Len(a))

(* C15 as stated: every next(loader) eventually returns a batch.           *)
C15_AlwaysReturns == (data_pc = "running") ~> (data_pc = "suspended")

(* C15 amended: next(loader) never signals exhaustion; the batches of a    *)
(* pass are yielded in the loader's order; a pass is opened only when the  *)
(* pass before it was yielded to its last batch, and the batch returned    *)
(* next is the first of the fresh pass; when the loader has at least one   *)
(* batch per pass every next(loader) eventually returns a batch.           *)
C15_RestartingStream ==
    /\ [](data_pc # "exhausted")
    /\ [](IsPrefix(yielded, pass_batches))
    /\ [](yielded # <<>> => real_img = yielded[Len(yielded)])
    /\ [][it_open' /\ ~it_open => yielded = pass_batches /\ yielded' = <<>>]_vars
    /\ [][data_pc = "running" /\ data_pc' = "suspended" =>
            /\ real_img' = pass_batches[Len(yielded) + 1]
            /\ yielded' = Append(yielded, real_img')
            /\ pass_batches' = pass_batches]_vars
    /\ (dataset_len >= batch_size) =>
          ((data_pc = "running") ~> (data_pc = "suspended"))

C15_Witness ==
    /\ data_pc = "suspended"
    /\ passes = 2
    /\ Len(pass_batches) = 2
    /\ yielded = <<pass_batches[1]>>
    /\ real_img = pass_batches[1]
    /\ real_img # <<1, 2>>

-----------------------------------------------------------------------------
(* Properties of mixing_noise (SpecMix).                                   *)

AllOfShape(items, shape) == \A k \in 1..Len(items) : items[k].shape = shape

TwoExpected ==
    \/ mix_args.prob = One
    \/ mix_args.prob \in 1..(One - 1) /\ draw < mix_args.prob

(* C17 as stated: mixing_noise returns a list of [batch, latent_dim]       *)
(* tensors: one element when prob = 0.0, two when prob = 1.0, and for      *)
(* 0 < prob < 1 two exactly when the draw is below prob.                   *)
C17_ListOfOneOrTwo ==
    mix_pc = "returned" =>
        /\ noise.kind = "list"
        /\ AllOfShape(noise.items, <<mix_args.batch, mix_args.latent_dim>>)
        /\ Len(noise.items) = IF TwoExpected THEN 2 ELSE 1

(* C17 amended: the same counts and shapes; the one-element result is a    *)
(* list, the two-element result is the tuple unbind returns.               *)
C17_OneListOrTwoTuple ==
    mix_pc = "returned" =>
        /\ AllOfShape(noise.items, <<mix_args.batch, mix_args.latent_dim>>)
        /\ Len(noise.items) = IF TwoExpected THEN 2 ELSE 1
        /\ noise.kind = IF TwoExpected THEN "tuple" ELSE "list"

C17_Witness ==
    /\ mix_pc = "returned"
    /\ mix_args.prob = 900
    /\ draw = 899
    /\ Len(noise.items) = 2
    /\ noise.items[2].shape = <<2, 512>>

-----------------------------------------------------------------------------
(* Properties of generate.py (SpecGen).                                    *)

(* C18: the mean latent is computed exactly once, before any image, iff    *)
(* truncation < 1; with truncation = 1 it is never computed and every call *)
(* of the generator gets None; with truncation < 1 every call gets that    *)
(* one precomputed mean latent and the configured truncation.              *)
C18_MeanLatentOnce ==
    /\ gen_pc = "main" => mean_calls = 0 /\ calls = <<>> /\ saves = <<>>
    /\ gen_pc # "main" =>
          mean_calls = IF gargs.truncation < One THEN 1 ELSE 0
    /\ gargs.truncation = One => mean_calls = 0 /\ mean_latent = None
    /\ gargs.truncation < One /\ gen_pc # "main" => mean_latent \in MeanLatents
    /\ \A k \in 1..Len(calls) :
          /\ calls[k].truncation = gargs.truncation
          /\ calls[k].truncation_latent = mean_latent
          /\ calls[k].truncation_latent = calls[1].truncation_latent

C18_Witness ==
    /\ gen_pc = "done"
    /\ gargs.truncation = 500
    /\ mean_calls = 1
    /\ Len(calls) = MaxPics
    /\ calls[MaxPics].truncation_latent = [none |-> FALSE, v |-> 2]

SavesOf(index, label) ==
    {k \in 1..Len(saves) : saves[k].index = zfill(str(index), CkptWidth)
                           /\ saves[k].label = label}

(* C19: when the run is over, with --conditional and no class given every  *)
(* image index has exactly one output for each class 0..num_classes-1 and  *)
(* nothing else; with a class given every image index has exactly one      *)
(* output, of that class.                                                  *)
C19_SweepsNumClasses ==
    gen_pc \in {"done", "RuntimeError"} /\ gargs.conditional =>
        LET classes == IF gargs.label = AllLabels
                       THEN 0..(gargs.num_classes - 1) ELSE {gargs.label}
        IN  /\ \A index \in 0..(gargs.pics - 1) : \A label \in classes :
                  Cardinality(SavesOf(index, label)) = 1
            /\ Len(saves) = gargs.pics * Cardinality(classes)

-----------------------------------------------------------------------------
(* Properties of prepare (SpecPrep).                                       *)

NImages == Len(imgs)

DistinctSizes == {sizes[k] : k \in 1..Len(sizes)}

(* The image the sort places at an index: the one with that many files     *)
(* before it.                                                              *)
ImageAt(index) ==
    CHOOSE x \in {imgs[k] : k \in 1..NImages} :
        Cardinality({k \in 1..NImages : imgs[k].file < x.file}) = index

ImageEntries ==
    {[key |-> Key(size, index, ImageAt(index).label),
      val |-> resize_and_convert(ImageAt(index).file, size)] :
        size \in DistinctSizes, index \in 0..(NImages - 1)}

(* C20: when prepare completes over N images, whatever the order the pool  *)
(* delivered in, the store holds exactly one image entry per (size, index) *)
(* pair, N times the number of sizes in all, each under the key of its     *)
(* size, zero-padded index and label, and "length" holds N; "length" is    *)
(* in the store only when every image entry is.                            *)
C20_StoreComplete ==
    /\ prep_pc = "done" =>
          /\ store = ImageEntries \cup {[key |-> LengthKey, val |-> str(NImages)]}
          /\ Cardinality(store \ {[key |-> LengthKey, val |-> str(NImages)]})
                = NImages * Cardinality(DistinctSizes)
          /\ \A e, f \in store : e.key = f.key => e = f
    /\ (\E e \in store : e.key = LengthKey) => ImageEntries \subseteq store
    /\ prep_pc # "done" => store \subseteq ImageEntries

C20_Witness ==
    /\ prep_pc = "done"
    /\ delivered = <<2, 0, 1>>
    /\ sizes = <<128, 256>>
    /\ imgs[1].file = 3
    /\ imgs[1].label # imgs[2].label
    /\ Cardinality(store) = 7

(* ----------------------------------------------------------------------- *)
(* Properties of the requires_grad flags of the loop (Spec).               *)
(* ----------------------------------------------------------------------- *)

OnlyTrainable(flags, model) ==
    /\ flags[model]
    /\ \A other \in DOMAIN flags : other # model => ~flags[other]

(* C21: every optimizer step of an iteration runs with exactly one network *)
(* trainable: each d_optim.step() (primary and R1) with the                *)
(* discriminator's parameters requiring gradients and the generator's not, *)
(* each g_optim.step() (primary and path-length) with the generator's      *)
(* requiring gradients and the discriminator's not.                        *)
C21_OneTrainable ==
    \A k \in 1..Len(optim_steps) :
        /\ optim_steps[k].optim = "d_optim"
              => OnlyTrainable(optim_steps[k].grad, "discriminator")
        /\ optim_steps[k].optim = "g_optim"
              => OnlyTrainable(optim_steps[k].grad, "generator")

(* A second iteration that took all four optimizer steps: its             *)
(* discriminator steps come after the generator phase of the first.        *)
C21_Witness ==
    /\ Len(ran) >= 2
    /\ Len(optim_steps) = 4
    /\ optim_steps[1].optim = "d_optim"
    /\ optim_steps[2].optim = "d_optim"
    /\ optim_steps[3].optim = "g_optim"
    /\ optim_steps[4].optim = "g_optim"

(* ----------------------------------------------------------------------- *)
(* Properties of the collective calls of a distributed run (SpecDist).     *)
(* ----------------------------------------------------------------------- *)

Live(proc) == rank_pc[proc] # "raised"

(* The iterations a process has started, and those it has left. *)
Started(proc) == dist_args.start_iter..rank_i[proc]

Left(proc, n) ==
    \/ n < rank_i[proc]
    \/ rank_pc[proc] \in {"rank0", "for", "done", "raised"}

(* The calls of reduce_sum and reduce_loss_dict of iteration n, in order. *)
ExplicitCalls(proc, n) ==
    LET own == SelectSeq(issued[proc],
                         LAMBDA c : c.i = n /\ c.op # "all_reduce")
    IN  [k \in 1..Len(own) |-> own[k].op]

ExpectedCalls(n) ==
    (IF n % dist_args.g_reg_every = 0 THEN <<"reduce_sum">> ELSE <<>>)
        \o <<"reduce_loss_dict">>

(* Any two processes entered the same calls in the same order. *)
SameSequence ==
    \A q1 \in Procs : \A q2 \in Procs :
        \A k \in 1..Len(issued[q1]) :
            k <= Len(issued[q2]) => issued[q1][k] = issued[q2][k]

(* Per iteration: reduce_sum exactly when i % g_reg_every == 0, then       *)
(* reduce_loss_dict once.                                                  *)
PerIteration ==
    \A q \in Procs : \A n \in Started(q) :
        IF Left(q, n)
          THEN ExplicitCalls(q, n) = ExpectedCalls(n)
          ELSE /\ IsPrefix(ExplicitCalls(q, n), ExpectedCalls(n))
               /\ ExplicitCalls(q, n) # ExpectedCalls(n)

(* Nothing is entered between reduce_loss_dict and the next iteration:     *)
(* the block of process 0 has no collective call.                          *)
BlockSilent ==
    \A q \in Procs : \A k \in 1..Len(issued[q]) :
        (issued[q][k].op = "reduce_loss_dict" /\ k < Len(issued[q]))
            => issued[q][k + 1].i > issued[q][k].i

(* A process inside a call is never ahead of a live process that has      *)
(* left the loop.                                                          *)
NoOrphanWait ==
    \A q1 \in Procs : \A q2 \in Procs :
        (in_call[q1] /\ Live(q2) /\ Len(issued[q2]) < Len(issued[q1]))
            => rank_pc[q2] # "done"

(* C22: with the same configuration and start_iter in every process, all  *)
(* processes enter the same sequence of collective calls, in each          *)
(* iteration reduce_sum exactly when i % g_reg_every == 0 and then         *)
(* reduce_loss_dict once; the block of process 0 enters none; and a        *)
(* process inside a collective call leaves it unless a process has died:   *)
(* it never waits for a live process that does not enter the call.         *)
C22_SameCollectives ==
    /\ [](SameSequence /\ PerIteration /\ BlockSilent /\ NoOrphanWait)
    /\ \A q \in Procs :
          in_call[q] ~> (~in_call[q] \/ \E q2 \in Procs : ~Live(q2))

(* Process 1 waits in the reduce_loss_dict of its second iteration, which  *)
(* process 2 has not entered yet; process 0 went through its block once;   *)
(* one of the two iterations had the reduce_sum and the other did not.     *)
C22_Witness ==
    /\ in_call[1]
    /\ issued[1][Len(issued[1])].op = "reduce_loss_dict"
    /\ rank_idx[1] = 2
    /\ Len(issued[2]) < Len(issued[1])
    /\ rank_idx[0] = 2
    /\ \A q \in Procs : Live(q)
    /\ \E n \in Started(1) : ExplicitCalls(1, n) = <<"reduce_sum", "reduce_loss_dict">>
    /\ \E n \in Started(1) : ExplicitCalls(1, n) = <<"reduce_loss_dict">>

(* ----------------------------------------------------------------------- *)
(* Properties of the two runs of one iteration (SpecPair).                 *)
(* ----------------------------------------------------------------------- *)

PastD(run) == pair_pc[run] \in {"g_phase", "done"}

(* C23: two runs of an iteration from the same parameters, optimizer state *)
(* and random draws, which differ only in whether the centroid term is on  *)
(* or in what the centroids and scalers make of the images, end with the   *)
(* same gradients and the same generator and discriminator parameters.     *)
C23_CentroidNoInfluence ==
    \A r1 \in Runs : \A r2 \in Runs :
        /\ (PastD(r1) /\ PastD(r2))
              => /\ pair_grads[r1].d = pair_grads[r2].d
                 /\ pair_disc[r1] = pair_disc[r2]
        /\ (pair_pc[r1] = "done" /\ pair_pc[r2] = "done")
              => /\ pair_grads[r1].g = pair_grads[r2].g
                 /\ pair_gen[r1] = pair_gen[r2]

(* Run 1 with the centroid term and run 2 without it have both taken      *)
(* their two optimizer steps on non-zero gradients, the distances of run 1 *)
(* depend on the generator, and the reported losses differ.                *)
C23_Witness ==
    /\ pair_pc[1] = "done"
    /\ pair_pc[2] = "done"
    /\ pair_cfg[1].on
    /\ ~pair_cfg[2].on
    /\ \A k \in 1..MaxBatch :
          /\ pair_cfg[1].near[k].slope # 0
          /\ pair_cfg[1].near[k].index < NumScalers
    /\ pair_grads[1].d # 0
    /\ pair_grads[1].g # 0
    /\ pair_disc[1] # pair_draw.w_disc
    /\ pair_gen[1] # pair_draw.w_gen
    /\ pair_losses[1].d # pair_losses[2].d
    /\ pair_losses[1].g # pair_losses[2].g

=============================================================================
